---- MODULE Spec2Model ----
(***************************************************************************)
(* Trinetra server: the WebSocket subscription engine (websocket.ts), the  *)
(* session registry (db.ts), the tmux adapter (tmux.ts), the phase         *)
(* detector (phase-detector.ts) and the session routes (routes/sessions).  *)
(*                                                                         *)
(* Node runs every handler to its next await without interruption, so an   *)
(* action is one such run: from the event that starts it (a message, a     *)
(* timer firing, a tmux process exiting) to the await it stops at.         *)
(***************************************************************************)
EXTENDS Integers, Sequences, FiniteSets, Bags, TLC

\* ------------------------------------------------------------------ bounds
MaxSubs == 2        \* handleSubscribe invocations that reach capturePane
MaxCaptures == 3    \* capture-pane invocations while the history is recorded
MaxInflight == 2    \* poll ticks awaiting capturePane at once
MaxClock == 1       \* the latest reading of the wall clock
MaxCreating == 2    \* POST /sessions handlers running at once
MaxInputs == 2      \* input and key messages handled
MaxListed == 2      \* names list-sessions prints
MaxPathLen == 3     \* characters of a pane's current path
MaxLines == 52      \* lines of a text given to the phase detector
MaxSockets == 3     \* WebSockets of the client not yet forgotten
MaxSaves == 1       \* pending connect() timers of the settings page
MaxContent == 3     \* characters of a content given to XTermView

\* ------------------------------------------------------------- value sets
None == [none |-> TRUE]    \* null / undefined / no entry
Gone == [gone |-> TRUE]    \* capture-pane exits non-zero: no such session or pane

StatusRUNNING == "RUNNING"
StatusEXITED == "EXITED"
NULL == "NULL"             \* SQL NULL in the phase column

\* tmux prints its sessions in this order; all of these carry the prefix ccp_
TmuxNames == << "ccp_1", "ccp_2", "ccp_9" >>
\* the rows of the sessions table in the runs of the session routes
RegIds == {"id1", "id2"}
TmuxNameOf == [id \in RegIds |-> IF id = "id1" THEN "ccp_1" ELSE "ccp_2"]
Range(sq) == {sq[n] : n \in 1..Len(sq)}

\* A captured text is a sequence of lines (the pieces between line breaks);
\* a line is the set of phases whose pattern set has a pattern matching
\* inside that line, plus PROMPT_END when the line ends with ": " or "? "
\* (the patterns /: $/ and /\? $/ match at the end of the input only).
\* The name tells texts apart; lines is what the phase patterns see.
EmptyString == [name |-> "", lines |-> << {} >>]     \* the JavaScript string ''
TextPlain == [name |-> "$ ls", lines |-> << {} >>]
TextError == [name |-> "$ ls; Error: ENOENT", lines |-> << {}, {"ERROR"} >>]
\* what capture-pane prints for a live pane: at least one line break
Texts == {TextPlain, TextError}
\* what the program in a pane shows over time
PaneScript == << TextPlain, TextError >>

SessionIds == {"s1"}
PaneKeys == {"0.0", "0.1"}
PaneIds == SessionIds \X PaneKeys
\* the pane keys that arrive in messages: those, and the key the session page
\* sends for a pane chosen with ?pane=
WireKeys == PaneKeys \cup {"s1:0.1"}
\* the connections; a subscription of a connection is found in its own map by
\* `${sessionId}:${paneKey}`
Conns == {"A", "B"}
SubKeys == Conns \X SessionIds \X WireKeys
ConnOf(k) == k[1]
PaneOf(k) == << k[2], k[3] >>
KeysOf(c) == {k \in SubKeys : ConnOf(k) = c}
CallIds == 1..MaxSubs
InputIds == 1..MaxInputs
\* what input and key messages carry
InputSessionIds == {"s1", "s0"}
InputData == {"ls"}
ModeCOMMAND == "command"
InputModes == {ModeCOMMAND, "raw", "paste"}
KeyNames == {"C-c", "F1"}

VARIABLES
    registry,       \* sessions table: id -> row or None
    clock,          \* the wall clock read by new Date()
    tmuxLive,       \* tmux: names of the live sessions
    panes,          \* tmux: pane -> position of the pane in PaneScript
    open,           \* connection -> socket.readyState === 1, no close event yet
    subscriptions,  \* state.subscriptions of every connection: subKey ->
                    \* Subscription or None
    timers,         \* the intervals set and not cleared, by creating call
    calls,          \* handleSubscribe invocations: call id -> position
    nextCall,       \* next free call id
    ticks,          \* bag of the interval callbacks awaiting capturePane
    capSeq,         \* number of capture-pane processes spawned (history)
    log,            \* subKey -> messages sent about it, in order (history)
    delivered,      \* subKey -> text of the last snapshot sent, or None
    flip,           \* subKey -> toggled by every snapshot sent
    recording,      \* whether the history variables are kept
    listPc,         \* GET /sessions: "idle", "listing", "done" or "failed"
    listDb,         \* GET /sessions: dbSessions
    listLive,       \* GET /sessions: what list-sessions printed
    listResult,     \* GET /sessions: the data of the last reply
    kills,          \* the POST /sessions/:id/kill awaiting tmux.killSession
    listPrev,       \* GET /sessions: the data of the reply it follows with no
                    \* change of tmux or the table in between (history)
    quiet,          \* no change of tmux or the table by others since the
                    \* last GET /sessions started (history)
    killedNames,    \* names a kill was asked for and nobody started since
    listKilled,     \* GET /sessions: ids killed before it started (history)
    killResult,     \* the last reply of POST /sessions/:id/kill
    creates,        \* POST /sessions: uuid -> position of the handler
    tmuxDir,        \* tmux: name -> directory its session was started in
    pipes,          \* tmux: name -> pipes open on pane 0.0
    paneInput,      \* tmux: name -> command lines typed into pane 0.0
    phaseText,      \* the text given to detectPhase
    phaseOut,       \* what detectPhase returned for it, or "none"
    inputs,         \* handleInput / handleKey invocations: id -> position
    nextInput,      \* next free id of such an invocation
    sendCount,      \* tmux: send-keys invocations these handlers have made
    lastSend,       \* tmux: the latest of them, with the message it was made for
    callIn,         \* a function of the adapter or the client being called: its input
    callOut,        \* what it returned, or Pending
    unsubscribed,   \* subKeys whose unsubscribe was handled with no subscribe
                    \* received since (history, kept when .on)
    sockets,        \* client: WebSocket -> readyState, "none" before it is
                    \* constructed and after its close event
    wsInstance,     \* client: the module's socket, 0 for null
    reconnectAttempts,  \* client: the module's counter
    reconnectTimeout,   \* client: whether the reconnect timer is pending
    connectTimers,  \* client: pending setTimeout(connect, 100) of the
                    \* settings page
    wsConnected,    \* client: the store's flag
    view,           \* client: the page on screen
    subscribeSent,  \* client: the subscribe sent for the page on screen
    outputBuffers,  \* client: the store's buffers, pane key -> content
    xtermContent,   \* client: the content prop of XTermView
    terminal        \* client: what the xterm shows and prevContentLengthRef

wsVars == << open, subscriptions, timers, calls, nextCall, ticks, capSeq, log,
             delivered, flip, recording, unsubscribed >>
listVars == << listPc, listDb, listLive, listResult, listPrev, listKilled >>
killVars == << kills, killedNames, killResult >>
createVars == << creates, tmuxDir, pipes, paneInput >>
phaseVars == << phaseText, phaseOut >>
inputVars == << inputs, nextInput, sendCount, lastSend >>
callVars == << callIn, callOut >>
socketVars == << sockets, wsInstance, reconnectAttempts, reconnectTimeout,
                connectTimers, wsConnected >>
clientVars == << socketVars, view, subscribeSent, outputBuffers, xtermContent, terminal >>
routeVars == << listVars, killVars, createVars, phaseVars, inputVars, callVars,
               clientVars >>
vars == << registry, clock, tmuxLive, panes, wsVars, routeVars, quiet >>

\* ---------------------------------------------------------- phase detector
PriorityOf(phase) ==
    CASE phase = "WAITING" -> 100
      [] phase = "ERROR" -> 90
      [] phase = "TESTING" -> 80
      [] phase = "BUILDING" -> 70
      [] phase = "CODING" -> 60

DefaultLastNLines == 50

\* the phases of phasePatterns, in the order of the array
phasePatterns == << "WAITING", "ERROR", "TESTING", "BUILDING", "CODING" >>

\* a slip that looks at the whole text
LastLinesAll(text, n) == text

\* lines.slice(-lastNLines)
LastLines(text, n) ==
    IF Len(text) <= n THEN text ELSE SubSeq(text, Len(text) - n + 1, Len(text))

\* whether a pattern of the set of `phase` matches relevantLines
PatternSetMatches(phase, relevantLines) ==
    \/ \E i \in 1..Len(relevantLines) : phase \in relevantLines[i]
    \/ /\ phase = "WAITING"
       /\ "PROMPT_END" \in relevantLines[Len(relevantLines)]

\* the loop over phasePatterns, sets 1..n: detectedPhase and highestPriority
RECURSIVE DetectLoop(_, _)
DetectLoop(relevantLines, n) ==
    IF n = 0 THEN [detectedPhase |-> "IDLE", highestPriority |-> -1]
    ELSE LET before == DetectLoop(relevantLines, n - 1)
             patternSet == phasePatterns[n]
         IN IF /\ PatternSetMatches(patternSet, relevantLines)
               /\ PriorityOf(patternSet) > before.highestPriority
            THEN [detectedPhase |-> patternSet,
                  highestPriority |-> PriorityOf(patternSet)]
            ELSE before

detectPhase(text) ==
    DetectLoop(LastLines(text.lines, DefaultLastNLines),
               Len(phasePatterns)).detectedPhase

\* detectPhase is called on phaseText
Classify ==
    /\ phaseOut = "none"
    /\ phaseOut' = detectPhase(phaseText)
    /\ UNCHANGED << registry, clock, tmuxLive, panes, wsVars, listVars, killVars,
                    createVars, phaseText, clientVars, inputVars, callVars, quiet >>

\* ------------------------------------------------------- JavaScript strings
\* A string is the sequence of its pieces: characters, or whole words where
\* the code looks at nothing smaller.
Whitespace == {" ", "\n"}

RECURSIVE trimStart(_)
trimStart(str) ==
    IF str # << >> /\ Head(str) \in Whitespace THEN trimStart(Tail(str)) ELSE str

RECURSIVE trimEnd(_)
trimEnd(str) ==
    IF str # << >> /\ str[Len(str)] \in Whitespace
    THEN trimEnd(SubSeq(str, 1, Len(str) - 1)) ELSE str

\* String.prototype.trim
trim(str) == trimEnd(trimStart(str))

\* String.prototype.split with a separator of one piece
RECURSIVE split(_, _)
split(str, sep) ==
    LET at == {n \in 1..Len(str) : str[n] = sep}
    IN IF at = {} THEN << str >>
       ELSE LET first == CHOOSE n \in at : \A o \in at : n <= o
            IN << SubSeq(str, 1, first - 1) >>
                 \o split(SubSeq(str, first + 1, Len(str)), sep)

\* Array.prototype.join with a separator of one piece
RECURSIVE join(_, _)
join(parts, sep) ==
    IF parts = << >> THEN << >>
    ELSE IF Len(parts) = 1 THEN parts[1]
    ELSE parts[1] \o << sep >> \o join(Tail(parts), sep)

\* String.prototype.startsWith
startsWith(str, prefix) ==
    Len(str) >= Len(prefix) /\ SubSeq(str, 1, Len(prefix)) = prefix

\* String.prototype.includes
includes(str, sub) ==
    \E n \in 0..(Len(str) - Len(sub)) : SubSeq(str, n + 1, n + Len(sub)) = sub

\* String.prototype.toLowerCase, on the words the messages of tmux capitalise
toLowerCase(str) ==
    [n \in 1..Len(str) |->
       IF str[n] = "No" THEN "no"
       ELSE IF str[n] = "Permission" THEN "permission"
       ELSE str[n]]

Digits == << "0", "1", "2", "3", "4", "5", "6", "7", "8", "9" >>
IsDigit(ch) == \E d \in 1..10 : Digits[d] = ch
DigitValue(ch) == (CHOOSE d \in 1..10 : Digits[d] = ch) - 1
NaN == [nan |-> TRUE]

\* the value of a run of decimal digits
RECURSIVE DigitsValue(_)
DigitsValue(str) ==
    IF str = << >> THEN 0
    ELSE 10 * DigitsValue(SubSeq(str, 1, Len(str) - 1)) + DigitValue(str[Len(str)])

\* the longest prefix of digits
RECURSIVE DigitPrefix(_)
DigitPrefix(str) ==
    IF str # << >> /\ IsDigit(Head(str)) THEN << Head(str) >> \o DigitPrefix(Tail(str))
    ELSE << >>

\* parseInt(str, 10) for a string without sign
parseInt(str) ==
    LET ds == DigitPrefix(trimStart(str))
    IN IF ds = << >> THEN NaN ELSE DigitsValue(ds)

\* how tmux prints a number
RECURSIVE NumberString(_)
NumberString(n) ==
    IF n < 10 THEN << Digits[n + 1] >>
    ELSE NumberString(n \div 10) \o << Digits[(n % 10) + 1] >>

\* ------------------------------------------------------------------ db.ts
getSessionById(id) == IF id \in DOMAIN registry THEN registry[id] ELSE None

getSessionByTmuxSession(name) ==
    LET ids == {id \in DOMAIN registry :
                  registry[id] # None /\ registry[id].tmuxSession = name}
    IN IF ids = {} THEN None ELSE registry[CHOOSE id \in ids : TRUE]

\* getSessionById(sessionId), else getSessionByTmuxSession(sessionId)
lookupSession(sessionId) ==
    IF getSessionById(sessionId) # None THEN getSessionById(sessionId)
    ELSE getSessionByTmuxSession(sessionId)

\* the fields of a row that handleSubscribe reads after its await
SessionRef(row) ==
    IF row = None THEN None
    ELSE [id |-> row.id, tmuxSession |-> row.tmuxSession, status |-> row.status]

\* UPDATE sessions SET status, phase, lastActivityAt WHERE id
updateSessionStatus(reg, id, status, phase) ==
    IF id \in DOMAIN reg /\ reg[id] # None
    THEN [reg EXCEPT ![id] = [@ EXCEPT !.status = status, !.phase = phase,
                                       !.lastActivityAt = clock]]
    ELSE reg

\* UPDATE sessions SET lastActivityAt WHERE id
updateSessionActivity(reg, id) ==
    IF id \in DOMAIN reg /\ reg[id] # None
    THEN [reg EXCEPT ![id] = [@ EXCEPT !.lastActivityAt = clock]]
    ELSE reg

\* ---------------------------------------------------------------- tmux.ts
\* a thrown Error, a returned value
Thrown == [thrown |-> TRUE, value |-> << >>]
Returned(value) == [thrown |-> FALSE, value |-> value]
\* the function called has not returned
Pending == [pending |-> TRUE]

\* a slip that forgets the text of a socket that cannot be reached
NoSessionsTextsSocketForgotten ==
    { << "no", " ", "server", " ", "running" >>,
      << "no", " ", "sessions" >>,
      << "no", " ", "such", " ", "file", " ", "or", " ", "directory" >> }

\* the texts of a non-zero exit that mean "no sessions"
NoSessionsTexts ==
    { << "no", " ", "server", " ", "running" >>,
      << "no", " ", "sessions" >>,
      << "error", " ", "connecting" >>,
      << "no", " ", "such", " ", "file", " ", "or", " ", "directory" >> }

SessionPrefix == << "ccp_" >>

\* name.startsWith('ccp_')
owned(name) == startsWith(name, SessionPrefix)

\* listSessions after `await execTmux`
parseListSessions(result) ==
    IF result.code # 0
    THEN LET stderr == toLowerCase(result.stderr)
         IN IF \E text \in NoSessionsTexts : includes(stderr, text)
            THEN Returned(<< >>)
            ELSE Thrown
    ELSE Returned(SelectSeq(split(trim(result.stdout), "\n"),
                            LAMBDA name : owned(name)))

\* one line of list-panes -F '#{pane_index}:#{pane_id}:#{pane_active}:#{pane_current_path}'
parsePaneLine(line) ==
    LET parts == split(line, ":")
    IN [index |-> parseInt(parts[1]),
        id |-> parts[2],
        active |-> (parts[3] = << "1" >>),
        currentPath |-> join(SubSeq(parts, 4, Len(parts)), ":")]

\* listPanes after `await execTmux`
parseListPanes(result) ==
    IF result.code # 0 THEN Thrown
    ELSE LET lines == SelectSeq(split(trim(result.stdout), "\n"),
                                LAMBDA line : Len(line) > 0)
         IN Returned([n \in 1..Len(lines) |-> parsePaneLine(lines[n])])

\* `${tmuxSessionName}:${paneKey}`, the target of handleSubscribe, handleInput
\* and handleKey
tmuxTarget(tmuxSessionName, paneKey) == << tmuxSessionName, ":" >> \o paneKey

\* ---------------------------------------------------- SessionDetailPage.tsx
\* `${window.index}.${pane.index}`
paneTarget(windowIndex, paneIndex) ==
    NumberString(windowIndex) \o << "." >> \o NumberString(paneIndex)

\* the options of one window
windowOptions(session, window) ==
    [n \in 1..Len(window.panes) |->
       [key |-> << session.tmuxSession, ":" >> \o paneTarget(window.index, window.panes[n]),
        paneTarget |-> paneTarget(window.index, window.panes[n])]]

RECURSIVE optionsFrom(_, _)
optionsFrom(session, n) ==
    IF n > Len(session.windows) THEN << >>
    ELSE windowOptions(session, session.windows[n]) \o optionsFrom(session, n + 1)

\* paneOptions
paneOptions(session) == optionsFrom(session, 1)

\* searchParams.get('pane') of a URL without the parameter
NoParam == << "null" >>

\* paneKey
clientPaneKey(session, paneParam) ==
    IF /\ paneParam # NoParam /\ paneParam # << >>
       /\ \E n \in 1..Len(paneOptions(session)) :
             paneOptions(session)[n].paneTarget = paneParam
    THEN << session.tmuxSession, ":" >> \o paneParam
    ELSE IF session.activePane # << >> THEN session.activePane
    ELSE IF Len(paneOptions(session)) > 0 THEN paneOptions(session)[1].key
    ELSE << session.tmuxSession, ":" >> \o paneTarget(0, 0)

\* the client sends a subscribe, input or key message for the pane it shows
\* and the server builds the target for tmux
ClientSend ==
    /\ callIn.op \in {"subscribe", "input", "key"}
    /\ callOut = Pending
    /\ LET sent == clientPaneKey(callIn.session, callIn.paneParam)
       IN callOut' = [paneKey |-> sent,
                      target |-> tmuxTarget(callIn.session.tmuxSession, sent)]
    /\ UNCHANGED << registry, clock, tmuxLive, panes, wsVars, listVars, killVars,
                    createVars, phaseVars, clientVars, inputVars, callIn, quiet >>

\* code ?? 0: the exit code, null when a signal ended the process
exitCode(exit) == IF "code" \in DOMAIN exit THEN exit.code ELSE 0

\* execTmux, proc.on('close'): the process the call spawned has exited and
\* its pipes are closed; the promise resolves with what it wrote
ExecClose ==
    /\ callIn.op = "execTmux"
    /\ callIn.process = "exits"
    /\ callOut = Pending
    /\ callOut' = Returned([stdout |-> callIn.stdout, stderr |-> callIn.stderr,
                            code |-> exitCode(callIn.exit)])
    /\ UNCHANGED << registry, clock, tmuxLive, panes, wsVars, listVars, killVars,
                    createVars, phaseVars, clientVars, inputVars, callIn, quiet >>

\* execTmux, proc.on('error'): the process could not be spawned; the promise
\* rejects
ExecError ==
    /\ callIn.op = "execTmux"
    /\ callIn.process = "fails"
    /\ callOut = Pending
    /\ callOut' = Thrown
    /\ UNCHANGED << registry, clock, tmuxLive, panes, wsVars, listVars, killVars,
                    createVars, phaseVars, clientVars, inputVars, callIn, quiet >>

\* listSessions returns or throws
ListSessionsReturn ==
    /\ callIn.op = "listSessions"
    /\ callOut = Pending
    /\ callOut' = parseListSessions(callIn.result)
    /\ UNCHANGED << registry, clock, tmuxLive, panes, wsVars, listVars, killVars,
                    createVars, phaseVars, clientVars, inputVars, callIn, quiet >>

\* listPanes returns or throws
ListPanesReturn ==
    /\ callIn.op = "listPanes"
    /\ callOut = Pending
    /\ callOut' = parseListPanes(callIn.result)
    /\ UNCHANGED << registry, clock, tmuxLive, panes, wsVars, listVars, killVars,
                    createVars, phaseVars, clientVars, inputVars, callIn, quiet >>

sessionOf(k) == k[2]

\* session?.tmuxSession ?? sessionId
TmuxSessionName(session, sessionId) ==
    IF session # None THEN session.tmuxSession ELSE sessionId

\* capturePane(`${tmuxSessionName}:${paneKey}`): stdout of capture-pane, or
\* the throw on a non-zero exit
capturePane(tmuxSessionName, k) ==
    IF tmuxSessionName \in tmuxLive /\ PaneOf(k) \in PaneIds
    THEN PaneScript[panes[PaneOf(k)]]
    ELSE Gone

\* ------------------------------------------------------------ websocket.ts

\* the unsubscribes handled and not followed by a subscribe for their key
Unsubscribed(k) ==
    IF unsubscribed.on THEN [unsubscribed EXCEPT !.keys = @ \cup {k}]
    ELSE unsubscribed

Resubscribed(k) ==
    IF unsubscribed.on THEN [unsubscribed EXCEPT !.keys = @ \ {k}]
    ELSE unsubscribed

\* sendMessage: dropped unless the socket is open
sendMessage(lg, k, msgs) ==
    IF open[ConnOf(k)] /\ recording THEN [lg EXCEPT ![k] = @ \o msgs] ELSE lg

SnapshotMsg(k, call, isTick, seq, text) ==
    [type |-> "snapshot", key |-> k, call |-> call, tick |-> isTick,
     seq |-> seq, text |-> text]

StatusMsg(k, call, isTick, seq, status, phase) ==
    [type |-> "status", key |-> k, call |-> call, tick |-> isTick,
     seq |-> seq, status |-> status, phase |-> phase]

ErrorMsg(k, call, isTick, seq) ==
    [type |-> "error", key |-> k, call |-> call, tick |-> isTick, seq |-> seq]

\* a slip that sends the status before the snapshot it describes
InitialMessagesStatusFirst(k, call, seq, text, status) ==
    << StatusMsg(k, call, FALSE, seq, status, detectPhase(text)),
       SnapshotMsg(k, call, FALSE, seq, text) >>

\* the messages of a successful initial capture, in sending order
InitialMessages(k, call, seq, text, status) ==
    << SnapshotMsg(k, call, FALSE, seq, text),
       StatusMsg(k, call, FALSE, seq, status, detectPhase(text)) >>

\* lastContent of a new Subscription
InitialLastContent(text) == EmptyString

NextSeq == IF recording THEN capSeq + 1 ELSE capSeq
CanCapture == recording => capSeq < MaxCaptures

\* a handleSubscribe that has not been invoked yet (its key is a placeholder)
IdleCall ==
    [pc |-> "idle", key |-> CHOOSE k \in SubKeys : TRUE, session |-> None,
     tmuxSessionName |-> "", res |-> None, seq |-> 0]

\* socket.on('message') -> handleSubscribe, up to `await tmux.capturePane`
RecvSubscribe(k) ==
    /\ open[ConnOf(k)]
    /\ unsubscribed' = Resubscribed(k)
    /\ IF subscriptions[k] # None
       THEN UNCHANGED << registry, clock, tmuxLive, panes, open, subscriptions,
                         timers, calls, nextCall, ticks, capSeq, log, delivered,
                         flip, recording, routeVars, quiet >>
       ELSE /\ nextCall <= MaxSubs
            /\ CanCapture
            /\ LET session == lookupSession(sessionOf(k))
                    name == TmuxSessionName(session, sessionOf(k))
               IN calls' = [calls EXCEPT ![nextCall] =
                              [pc |-> "capturing", key |-> k,
                               session |-> SessionRef(session),
                               tmuxSessionName |-> name,
                               res |-> capturePane(name, k), seq |-> NextSeq]]
            /\ nextCall' = nextCall + 1
            /\ capSeq' = NextSeq
            /\ UNCHANGED << registry, clock, tmuxLive, panes, open, subscriptions,
                            timers, ticks, log, delivered, flip, recording, routeVars, quiet >>

\* handleSubscribe after the await: the initial capture succeeded
SubscribeCaptured(i) ==
    LET c == calls[i]
        k == c.key
        status == IF c.session # None THEN c.session.status ELSE StatusRUNNING
    IN /\ c.pc = "capturing"
       /\ c.res # Gone
       /\ log' = sendMessage(log, k, InitialMessages(k, i, c.seq, c.res, status))
       /\ delivered' = IF open[ConnOf(k)] THEN [delivered EXCEPT ![k] = c.res] ELSE delivered
       /\ flip' = IF open[ConnOf(k)] THEN [flip EXCEPT ![k] = ~@] ELSE flip
       /\ registry' = IF c.session # None
                      THEN updateSessionStatus(registry, c.session.id,
                                               c.session.status, detectPhase(c.res))
                      ELSE registry
       /\ timers' = timers \cup {i}
       /\ subscriptions' = [subscriptions EXCEPT ![k] =
                              [intervalId |-> i,
                               lastContent |-> InitialLastContent(c.res)]]
       /\ calls' = [calls EXCEPT ![i] = [@ EXCEPT !.pc = "done", !.res = None]]
       /\ quiet' = (quiet /\ registry' = registry)
       /\ UNCHANGED << clock, tmuxLive, panes, open, nextCall, ticks, capSeq,
                       recording, unsubscribed, routeVars >>

\* a slip that reports a status although nothing was captured
FailureMessagesWithStatus(k, call, seq) ==
    << ErrorMsg(k, call, FALSE, seq),
       StatusMsg(k, call, FALSE, seq, StatusRUNNING, "IDLE") >>

\* what the catch block of the initial capture sends
FailureMessages(k, call, seq) == << ErrorMsg(k, call, FALSE, seq) >>

\* handleSubscribe after the await: the initial capture threw
SubscribeFailed(i) ==
    LET c == calls[i]
    IN /\ c.pc = "capturing"
       /\ c.res = Gone
       /\ log' = sendMessage(log, c.key, FailureMessages(c.key, i, c.seq))
       /\ calls' = [calls EXCEPT ![i] = [@ EXCEPT !.pc = "failed", !.res = None]]
       /\ UNCHANGED << registry, clock, tmuxLive, panes, open, subscriptions, timers,
                       nextCall, ticks, capSeq, delivered, flip, recording, unsubscribed, routeVars, quiet >>

\* the ticks of timer t that await their capture
TicksOf(t) ==
    LET mine == {tk \in BagToSet(ticks) : tk.timer = t}
    IN [tk \in mine |-> ticks[tk]]

\* whether the interval may fire now (setInterval does not wait for the
\* promise its callback returned)
MayFire(t) == t \in timers

\* the setInterval callback, up to `await tmux.capturePane`
TickStart(t) ==
    /\ MayFire(t)
    /\ BagCardinality(ticks) < MaxInflight
    /\ CanCapture
    /\ ticks' = ticks (+) SetToBag({[timer |-> t, seq |-> NextSeq,
                                     res |-> capturePane(calls[t].tmuxSessionName,
                                                         calls[t].key)]})
    /\ capSeq' = NextSeq
    /\ UNCHANGED << registry, clock, tmuxLive, panes, open, subscriptions, timers,
                    calls, nextCall, log, delivered, flip, recording, unsubscribed, routeVars, quiet >>

\* a slip that drops the comparison: every tick sends
ContentChangedAlways(sub, content) == TRUE

\* the comparison that decides whether a tick sends
ContentChanged(sub, content) == content # sub.lastContent

\* a slip that keeps the phase as state: the phase of the content seen last
tickPhaseOfLastContent(sub, content) == detectPhase(sub.lastContent)

\* the phase a tick reports and stores
tickPhase(sub, content) == detectPhase(content)

\* the setInterval callback after the await: the capture succeeded
TickCaptured(tk) ==
    LET k == calls[tk.timer].key
        sub == subscriptions[k]
        currentSession == getSessionById(sessionOf(k))
        status == IF currentSession # None THEN currentSession.status ELSE StatusRUNNING
        phase == tickPhase(sub, tk.res)
    IN /\ BagIn(tk, ticks)
       /\ tk.res # Gone
       /\ ticks' = ticks (-) SetToBag({tk})
       /\ IF sub # None /\ ContentChanged(sub, tk.res)
          THEN /\ subscriptions' = [subscriptions EXCEPT ![k].lastContent = tk.res]
               /\ log' = sendMessage(log, k,
                            << SnapshotMsg(k, tk.timer, TRUE, tk.seq, tk.res),
                               StatusMsg(k, tk.timer, TRUE, tk.seq, status, phase) >>)
               /\ delivered' = IF open[ConnOf(k)] THEN [delivered EXCEPT ![k] = tk.res]
                               ELSE delivered
               /\ flip' = IF open[ConnOf(k)] THEN [flip EXCEPT ![k] = ~@] ELSE flip
               /\ registry' = IF currentSession # None
                              THEN updateSessionActivity(
                                       updateSessionStatus(registry, sessionOf(k),
                                                           status, phase),
                                       sessionOf(k))
                              ELSE registry
          ELSE UNCHANGED << subscriptions, log, delivered, flip, registry >>
       /\ quiet' = (quiet /\ registry' = registry)
       /\ UNCHANGED << clock, tmuxLive, panes, open, timers, calls, nextCall, capSeq,
                       recording, unsubscribed, routeVars >>

\* the setInterval callback after the await: the capture threw
TickFailed(tk) ==
    LET k == calls[tk.timer].key
        sub == subscriptions[k]
    IN /\ BagIn(tk, ticks)
       /\ tk.res = Gone
       /\ ticks' = ticks (-) SetToBag({tk})
       /\ IF sub # None
          THEN /\ timers' = timers \ {sub.intervalId}
               /\ subscriptions' = [subscriptions EXCEPT ![k] = None]
          ELSE UNCHANGED << timers, subscriptions >>
       /\ UNCHANGED << registry, clock, tmuxLive, panes, open, calls, nextCall,
                       capSeq, log, delivered, flip, recording, unsubscribed, routeVars, quiet >>

\* socket.on('message') -> handleUnsubscribe
RecvUnsubscribe(k) ==
    LET sub == subscriptions[k]
    IN /\ open[ConnOf(k)]
       /\ unsubscribed' = Unsubscribed(k)
       /\ IF sub # None
          THEN /\ timers' = timers \ {sub.intervalId}
               /\ subscriptions' = [subscriptions EXCEPT ![k] = None]
          ELSE UNCHANGED << timers, subscriptions >>
       /\ UNCHANGED << registry, clock, tmuxLive, panes, open, calls, nextCall,
                       ticks, capSeq, log, delivered, flip, recording, routeVars, quiet >>

\* a slip that keeps the subscriptions of all connections in one map
ClosedTimersOfAll(c) ==
    {subscriptions[k].intervalId : k \in {x \in SubKeys : subscriptions[x] # None}}

\* the intervals socket.on('close') of connection c clears
ClosedTimers(c) ==
    {subscriptions[k].intervalId : k \in {x \in KeysOf(c) : subscriptions[x] # None}}

\* socket.on('close') of connection c
SocketClose(c) ==
    /\ open[c]
    /\ open' = [open EXCEPT ![c] = FALSE]
    /\ timers' = timers \ ClosedTimers(c)
    /\ UNCHANGED << registry, clock, tmuxLive, panes, subscriptions, calls, nextCall,
                    ticks, capSeq, log, delivered, flip, recording, unsubscribed, routeVars, quiet >>

\* the argument list of tmux.sendKeys after `send-keys -t target`
sendKeys(target, keys) == [target |-> target, keys |-> << keys >>]

\* a slip that leaves the Enter out
sendCommandNoEnter(target, command) == [target |-> target, keys |-> << command >>]

\* the argument list of tmux.sendCommand after `send-keys -t target`
sendCommand(target, command) == [target |-> target, keys |-> << command, "Enter" >>]

\* the keys handleKey lists, each mapped to the tmux name of the same spelling
keyMap ==
    [key \in {"C-c", "C-z", "Enter", "Escape", "Up", "Down", "Left", "Right",
              "Tab", "Space", "1", "2", "3", "4", "5", "y", "n"} |-> key]

\* keyMap[key] || key
tmuxKey(key) == IF key \in DOMAIN keyMap THEN keyMap[key] ELSE key

\* a slip that skips the timestamp
afterDeliveryNoTouch(reg, session) == reg

\* what follows a delivery that did not throw
afterDelivery(reg, session) ==
    IF session # None THEN updateSessionActivity(reg, session.id) ELSE reg

\* a handleInput or handleKey that has not been invoked yet
IdleInput ==
    [pc |-> "idle", conn |-> "A", command |-> FALSE, session |-> None,
     ok |-> FALSE, errors |-> 0]

\* no send-keys invocation yet
NoSend == [id |-> 0, msg |-> None, args |-> None]

\* handleInput and handleKey up to the await of send-keys, which types into
\* the pane or exits non-zero (no such session, or tmux cannot be run)
StartDelivery(c, sid, msg, args) ==
    \E runs \in BOOLEAN :
        /\ open[c]
        /\ nextInput <= MaxInputs
        /\ inputs' = [inputs EXCEPT ![nextInput] =
               [pc |-> "sending", conn |-> c, command |-> (msg.mode = ModeCOMMAND),
                session |-> SessionRef(lookupSession(sid)),
                ok |-> runs /\ args.target[1] \in tmuxLive, errors |-> 0]]
        /\ sendCount' = sendCount + 1
        /\ lastSend' = [id |-> nextInput, msg |-> msg, args |-> args]
        /\ nextInput' = nextInput + 1
        /\ UNCHANGED << registry, clock, tmuxLive, panes, wsVars, listVars,
                        killVars, createVars, phaseVars, clientVars, callVars, quiet >>

\* socket.on('message') -> handleInput, up to `await tmux.sendCommand` or
\* `await tmux.sendKeys`
RecvInput(c, sid, paneKey, data, mode) ==
    LET target == << TmuxSessionName(lookupSession(sid), sid), paneKey >>
    IN StartDelivery(c, sid,
                     [sessionId |-> sid, paneKey |-> paneKey, data |-> data,
                      mode |-> mode],
                     IF mode = ModeCOMMAND THEN sendCommand(target, data)
                     ELSE sendKeys(target, data))

\* socket.on('message') -> handleKey, up to `await tmux.sendKeys`
RecvKey(c, sid, paneKey, key) ==
    LET target == << TmuxSessionName(lookupSession(sid), sid), paneKey >>
    IN StartDelivery(c, sid,
                     [sessionId |-> sid, paneKey |-> paneKey, data |-> key,
                      mode |-> "key"],
                     sendKeys(target, tmuxKey(key)))

\* handleInput and handleKey after the await: the timestamp, or the catch
DeliveryDone(n) ==
    LET h == inputs[n]
    IN /\ h.pc = "sending"
       /\ IF h.ok
          THEN /\ registry' = afterDelivery(registry, h.session)
               /\ inputs' = [inputs EXCEPT ![n].pc = "done", ![n].session = None]
          ELSE /\ inputs' = [inputs EXCEPT ![n].pc = "failed", ![n].session = None,
                                           ![n].errors = IF open[h.conn] THEN 1 ELSE 0]
               /\ UNCHANGED registry
       /\ quiet' = (quiet /\ registry' = registry)
       /\ UNCHANGED << clock, tmuxLive, panes, wsVars, listVars, killVars,
                       createVars, phaseVars, clientVars, callVars, nextInput, sendCount, lastSend >>

\* ------------------------------------------------------------ environment
\* the program in the pane prints something
PaneOutput(k) ==
    /\ TmuxSessionName(lookupSession(sessionOf(k)), sessionOf(k)) \in tmuxLive
    /\ panes[PaneOf(k)] < Len(PaneScript)
    /\ panes' = [panes EXCEPT ![PaneOf(k)] = @ + 1]
    /\ UNCHANGED << registry, clock, tmuxLive, open, subscriptions, timers, calls,
                    nextCall, ticks, capSeq, log, delivered, flip, recording, unsubscribed, routeVars, quiet >>

\* the session ends outside the server (its shell exits, tmux kill-session)
SessionExit(s) ==
    /\ s \in tmuxLive
    /\ tmuxLive' = tmuxLive \ {s}
    /\ quiet' = FALSE
    /\ UNCHANGED << registry, clock, panes, open, subscriptions, timers, calls,
                    nextCall, ticks, capSeq, log, delivered, flip, recording, unsubscribed,
                    routeVars >>

\* -------------------------------------------------------------- db.ts (2)
\* SELECT * FROM sessions ORDER BY lastActivityAt DESC: every order of the rows
\* the clause allows (rows of equal lastActivityAt come in any order)
getAllSessions ==
    LET ids == {id \in DOMAIN registry : registry[id] # None}
        orders == {sq \in [1..Cardinality(ids) -> ids] :
                     /\ \A a, b \in 1..Cardinality(ids) : a # b => sq[a] # sq[b]
                     /\ \A a, b \in 1..Cardinality(ids) : a < b =>
                           registry[sq[a]].lastActivityAt >= registry[sq[b]].lastActivityAt}
    IN {[n \in 1..Cardinality(ids) |-> registry[sq[n]]] : sq \in orders}

\* ------------------------------------------------------------ tmux.ts (2)
\* listSessions(): the names list-sessions prints
listSessions == SelectSeq(TmuxNames, LAMBDA n : n \in tmuxLive)

\* ----------------------------------------------------- routes/sessions.ts
Failed == << "failed" >>    \* tmux.listSessions() threw

\* a slip that never brings an EXITED row back
ReconciledStatusNoRevive(status, isRunning) ==
    IF ~isRunning /\ status = StatusRUNNING THEN StatusEXITED ELSE status

\* the status GET /sessions gives a row it read with `status`
ReconciledStatus(status, isRunning) ==
    IF isRunning /\ status = StatusEXITED THEN StatusRUNNING
    ELSE IF ~isRunning /\ status = StatusRUNNING THEN StatusEXITED
    ELSE status

\* the updateSessionStatus calls of the loop over dbSessions, rows 1..n
RECURSIVE ReconcileWrites(_, _, _, _)
ReconcileWrites(reg, rows, live, n) ==
    IF n = 0 THEN reg
    ELSE LET row == rows[n]
             st == ReconciledStatus(row.status, row.tmuxSession \in Range(live))
             before == ReconcileWrites(reg, rows, live, n - 1)
         IN IF st # row.status
            THEN updateSessionStatus(before, row.id, st, NULL)
            ELSE before

\* the entries of the reply for the rows of dbSessions
ReconciledRows(rows, live) ==
    [n \in 1..Len(rows) |->
        [rows[n] EXCEPT !.status =
            ReconciledStatus(rows[n].status, rows[n].tmuxSession \in Range(live))]]

\* a slip that forgets which names the rows already cover
DiscoveredRowsUnseen(rows, live) ==
    [n \in 1..Len(live) |->
          [id |-> live[n], tmuxSession |-> live[n], status |-> StatusRUNNING,
           phase |-> NULL, lastActivityAt |-> clock, discovered |-> TRUE]]

\* the entries of the reply for tmux sessions that have no row
DiscoveredRows(rows, live) ==
    LET seen == {rows[n].tmuxSession : n \in 1..Len(rows)}
        names == SelectSeq(live, LAMBDA nm : nm \notin seen)
    IN [n \in 1..Len(names) |->
          [id |-> names[n], tmuxSession |-> names[n], status |-> StatusRUNNING,
           phase |-> NULL, lastActivityAt |-> clock, discovered |-> TRUE]]

NoReply == << "none" >>    \* no reply of GET /sessions to compare with

\* ids of the rows whose session a kill has ended, the kill having replied
KilledIds ==
    {id \in DOMAIN registry :
        /\ registry[id] # None
        /\ registry[id].tmuxSession \in killedNames
        /\ \A k \in kills : k.id # id}

\* GET /sessions up to `await tmux.listSessions()`
ListRead ==
    /\ listPc # "listing"
    /\ listPc' = "listing"
    /\ listDb' \in getAllSessions
    /\ listLive' \in {listSessions, Failed}
    /\ listResult' = << >>
    /\ listPrev' = IF listPc = "done" /\ quiet THEN listResult ELSE NoReply
    /\ listKilled' = KilledIds
    /\ quiet' = recording
    /\ UNCHANGED << registry, clock, tmuxLive, panes, wsVars, killVars, createVars, phaseVars, clientVars, inputVars, callVars >>

\* GET /sessions after the await: the merge loop and the reply
ListReply ==
    /\ listPc = "listing"
    /\ IF listLive = Failed
       THEN /\ listPc' = "failed"
            /\ UNCHANGED << registry, listResult >>
       ELSE /\ listPc' = "done"
            /\ registry' = ReconcileWrites(registry, listDb, listLive, Len(listDb))
            /\ listResult' = ReconciledRows(listDb, listLive)
                                 \o DiscoveredRows(listDb, listLive)
    /\ listPrev' = NoReply
    /\ listKilled' = {}
    /\ UNCHANGED << clock, tmuxLive, panes, wsVars, listDb, listLive, killVars,
                    createVars, phaseVars, clientVars, inputVars, callVars, quiet >>

KillTargets == RegIds \cup {"ccp_9"}

\* a slip that marks the row only when kill-session ended a session
KillMarksRowOnlyIfKilled(hasRow, killed) == hasRow /\ killed

\* whether POST /sessions/:id/kill marks the row EXITED
KillMarksRow(hasRow, killed) == hasRow

\* POST /sessions/:id/kill up to `await tmux.killSession`; kill-session ends
\* the session, exits non-zero when there is no session of that name, or
\* cannot be run at all
KillStart(id) ==
    LET session == getSessionById(id)
        name == TmuxSessionName(session, id)
    IN /\ kills = {}
       /\ \E runs \in BOOLEAN :
             /\ kills' = kills \cup {[id |-> id, hasRow |-> session # None,
                                      killed |-> runs /\ name \in tmuxLive]}
             /\ tmuxLive' = IF runs THEN tmuxLive \ {name} ELSE tmuxLive
       /\ killedNames' = IF recording /\ session # None /\ name \notin tmuxLive'
                         THEN killedNames \cup {name} ELSE killedNames
       /\ killResult' = "none"
       /\ quiet' = (quiet /\ tmuxLive' = tmuxLive)
       /\ UNCHANGED << registry, clock, panes, wsVars, listVars, createVars, phaseVars, clientVars, inputVars, callVars >>

\* POST /sessions/:id/kill after the await (killSession returned or threw)
KillReply(k) ==
    /\ k \in kills
    /\ kills' = kills \ {k}
    /\ registry' = IF KillMarksRow(k.hasRow, k.killed)
                   THEN updateSessionStatus(registry, k.id, StatusEXITED, NULL)
                   ELSE registry
    /\ killResult' = "success"
    /\ quiet' = (quiet /\ registry' = registry)
    /\ UNCHANGED << clock, tmuxLive, panes, wsVars, listVars, killedNames,
                    createVars, phaseVars, clientVars, inputVars, callVars >>

\* ------------------------------------------ routes/sessions.ts: create
\* the uuids uuidv4() returns; the part before the first dash is the shortId
Uuids == {"1-a", "2-a", "2-b"}
ShortId == [u \in Uuids |-> IF u = "1-a" THEN "1" ELSE "2"]
\* `ccp_${shortId}`
NewSessionName(u) ==
    CASE ShortId[u] = "1" -> "ccp_1"
      [] ShortId[u] = "2" -> "ccp_2"
      [] ShortId[u] = "9" -> "ccp_9"

\* the workspaces and templates tables
WorkspacePath == [w \in {"w1"} |-> "/ws1"]
Templates ==
    [t \in {"tPlain", "tFull"} |->
        IF t = "tPlain"
        THEN [preCommands |-> << >>, autoRun |-> FALSE, command |-> "run"]
        ELSE [preCommands |-> << "pre1", "pre2" >>, autoRun |-> TRUE,
              command |-> "run"]]
NoTemplate == [preCommands |-> << >>, autoRun |-> FALSE, command |-> ""]

\* request bodies; "" is a field left out
Bodies ==
    { [pathOverride |-> "", workspaceId |-> "", templateId |-> ""],
      [pathOverride |-> "/over", workspaceId |-> "w1", templateId |-> "tFull"],
      [pathOverride |-> "", workspaceId |-> "w1", templateId |-> "tPlain"],
      [pathOverride |-> "", workspaceId |-> "", templateId |-> "tFull"],
      [pathOverride |-> "", workspaceId |-> "w0", templateId |-> ""],
      [pathOverride |-> "/over", workspaceId |-> "", templateId |-> "t0"] }

DefaultDir == "$HOME"         \* process.env.HOME || '/tmp'
ElsewhereDir == "elsewhere"   \* of a session the server did not start

\* a slip that lets the workspace's path win over the override
ResolvePathWorkspaceFirst(body) ==
    IF body.workspaceId # "" THEN WorkspacePath[body.workspaceId]
    ELSE IF body.pathOverride # "" THEN body.pathOverride
    ELSE DefaultDir

\* sessionPath of a body whose workspace, if any, exists
ResolvePath(body) ==
    LET sessionPath == body.pathOverride
        fromWorkspace == IF body.workspaceId # "" /\ sessionPath = ""
                         THEN WorkspacePath[body.workspaceId]
                         ELSE sessionPath
    IN IF fromWorkspace = "" THEN DefaultDir ELSE fromWorkspace

\* a slip that sends the autorun command before the preamble
SendQueueAutorunFirst(template) ==
    (IF template.autoRun /\ template.command # ""
     THEN << template.command >> ELSE << >>) \o template.preCommands

\* the command lines create sends, in order: preCommands, then the command
\* of an autoRun template
SendQueue(template) ==
    template.preCommands \o
    (IF template.autoRun /\ template.command # ""
     THEN << template.command >> ELSE << >>)

\* a slip that takes every exit of new-session for a success
createSessionNeverThrows(ok) == FALSE

\* tmux.createSession: throws when new-session did not exit with 0
createSessionThrows(ok) == ~ok

\* a slip that checks the primary key only
InsertViolatesIdOnly(reg, id, name) == reg[id] # None

\* INSERT INTO sessions: id is the PRIMARY KEY, tmuxSession is UNIQUE
InsertViolates(reg, id, name) ==
    \/ reg[id] # None
    \/ \E o \in DOMAIN reg : reg[o] # None /\ reg[o].tmuxSession = name

\* db.createSession
dbCreateSession(reg, id, name) ==
    [reg EXCEPT ![id] = [id |-> id, tmuxSession |-> name,
                         status |-> StatusRUNNING, phase |-> "IDLE",
                         lastActivityAt |-> clock, discovered |-> FALSE]]

\* a slip that deletes the row when a later step fails
CatchRegistryRollback(reg, id) == [reg EXCEPT ![id] = None]

\* the table after the catch block of POST /sessions
CatchRegistry(reg, id) == reg

NoBody == [pathOverride |-> "", workspaceId |-> "", templateId |-> ""]

\* a handler not started; body, taken and steps are kept as history
IdleCreate ==
    [pc |-> "idle", body |-> NoBody, path |-> "", template |-> NoTemplate,
     idx |-> 0, ok |-> FALSE, taken |-> FALSE, steps |-> << >>]

Creating == {u \in Uuids : creates[u].pc \in
                {"creating", "piping", "sending", "delay"}}

NameTaken(name) ==
    \/ name \in tmuxLive
    \/ \E o \in DOMAIN registry : registry[o] # None /\ registry[o].tmuxSession = name

\* the reply ends the handler
Replied(c, code) == [c EXCEPT !.pc = code, !.idx = 0, !.ok = FALSE]

\* tmux.sendCommand for entry n of the queue, up to its await; send-keys
\* types the line into the pane, or fails
StartSend(u, c, n) ==
    \E runs \in BOOLEAN :
        LET name == NewSessionName(u)
            cmd == SendQueue(c.template)[n]
            ok == runs /\ name \in tmuxLive
        IN /\ creates' = [creates EXCEPT ![u] =
                            [c EXCEPT !.pc = "sending", !.idx = n, !.ok = ok,
                                      !.steps = Append(@, cmd)]]
           /\ paneInput' = IF ok THEN [paneInput EXCEPT ![name] = Append(@, cmd)]
                           ELSE paneInput

\* POST /sessions up to `await tmux.createSession`; u is the uuid the handler
\* draws if it gets that far.  new-session starts the session, or fails (a
\* session of that name exists, or tmux cannot be run)
CreateStart(u, body) ==
    LET c == creates[u]
        name == NewSessionName(u)
    IN /\ c.pc = "idle"
       /\ Cardinality(Creating) < MaxCreating
       /\ IF \/ body.workspaceId # "" /\ body.workspaceId \notin DOMAIN WorkspacePath
             \/ body.templateId # "" /\ body.templateId \notin DOMAIN Templates
          THEN /\ creates' = [creates EXCEPT ![u] =
                                Replied([c EXCEPT !.body = body], "400")]
               /\ UNCHANGED << tmuxLive, tmuxDir, pipes, paneInput, killedNames,
                               quiet >>
          ELSE \E runs \in BOOLEAN :
                 LET ok == runs /\ name \notin tmuxLive
                     path == ResolvePath(body)
                 IN /\ creates' = [creates EXCEPT ![u] =
                         [pc |-> "creating", body |-> body, path |-> path,
                          template |-> IF body.templateId # ""
                                       THEN Templates[body.templateId]
                                       ELSE NoTemplate,
                          idx |-> 0, ok |-> ok, taken |-> NameTaken(name),
                          steps |-> << "new-session" >>]]
                    /\ tmuxLive' = IF ok THEN tmuxLive \cup {name} ELSE tmuxLive
                    /\ tmuxDir' = IF ok THEN [tmuxDir EXCEPT ![name] = path]
                                  ELSE tmuxDir
                    /\ pipes' = IF ok THEN [pipes EXCEPT ![name] = 0] ELSE pipes
                    /\ paneInput' = IF ok THEN [paneInput EXCEPT ![name] = << >>]
                                    ELSE paneInput
                    /\ killedNames' = IF ok THEN killedNames \ {name}
                                      ELSE killedNames
                    /\ quiet' = (quiet /\ ~ok)
       /\ UNCHANGED << registry, clock, panes, wsVars, listVars, kills, killResult,
                       phaseVars, clientVars, inputVars, callVars >>

\* POST /sessions after `await tmux.createSession`, up to
\* `await tmux.pipePaneToFile`; pipe-pane -o opens a pipe if the pane has
\* none and closes the one it has
CreateSessionDone(u) ==
    LET c == creates[u]
        name == NewSessionName(u)
    IN /\ c.pc = "creating"
       /\ IF createSessionThrows(c.ok)
          THEN /\ creates' = [creates EXCEPT ![u] = Replied(c, "500")]
               /\ registry' = CatchRegistry(registry, u)
               /\ UNCHANGED pipes
          ELSE /\ \E runs \in BOOLEAN :
                     LET ok == runs /\ name \in tmuxLive
                     IN /\ creates' = [creates EXCEPT ![u] =
                              [c EXCEPT !.pc = "piping", !.ok = ok,
                                        !.steps = Append(@, "pipe-pane")]]
                        /\ pipes' = IF ok
                                    THEN [pipes EXCEPT ![name] =
                                             IF @ = 0 THEN 1 ELSE 0]
                                    ELSE pipes
               /\ UNCHANGED registry
       /\ quiet' = (quiet /\ registry' = registry)
       /\ UNCHANGED << clock, tmuxLive, panes, wsVars, listVars, killVars,
                       phaseVars, clientVars, inputVars, callVars, tmuxDir, paneInput >>

\* POST /sessions after `await tmux.pipePaneToFile`: the row is inserted and
\* the first command, if any, is sent
PipeDone(u) ==
    LET c == creates[u]
        name == NewSessionName(u)
        inserted == [c EXCEPT !.steps = Append(@, "insert")]
    IN /\ c.pc = "piping"
       /\ IF ~c.ok
          THEN /\ creates' = [creates EXCEPT ![u] = Replied(c, "500")]
               /\ registry' = CatchRegistry(registry, u)
               /\ UNCHANGED paneInput
          ELSE IF InsertViolates(registry, u, name)
          THEN /\ creates' = [creates EXCEPT ![u] = Replied(c, "500")]
               /\ UNCHANGED << registry, paneInput >>
          ELSE /\ registry' = dbCreateSession(registry, u, name)
               /\ IF SendQueue(c.template) = << >>
                  THEN /\ creates' = [creates EXCEPT ![u] = Replied(inserted, "201")]
                       /\ UNCHANGED paneInput
                  ELSE StartSend(u, inserted, 1)
       /\ quiet' = (quiet /\ registry' = registry)
       /\ UNCHANGED << clock, tmuxLive, panes, wsVars, listVars, killVars,
                       phaseVars, clientVars, inputVars, callVars, tmuxDir, pipes >>

\* POST /sessions after an `await tmux.sendCommand`
SendDone(u) ==
    LET c == creates[u]
    IN /\ c.pc = "sending"
       /\ IF ~c.ok
          THEN /\ creates' = [creates EXCEPT ![u] = Replied(c, "500")]
               /\ registry' = CatchRegistry(registry, u)
          ELSE /\ creates' = [creates EXCEPT ![u] =
                                IF c.idx <= Len(c.template.preCommands)
                                THEN [c EXCEPT !.pc = "delay"]
                                ELSE Replied(c, "201")]
               /\ UNCHANGED registry
       /\ quiet' = (quiet /\ registry' = registry)
       /\ UNCHANGED << clock, tmuxLive, panes, wsVars, listVars, killVars,
                       phaseVars, clientVars, inputVars, callVars, tmuxDir, pipes, paneInput >>

\* POST /sessions after the delay that follows a preamble command
DelayDone(u) ==
    LET c == creates[u]
    IN /\ c.pc = "delay"
       /\ IF c.idx + 1 <= Len(SendQueue(c.template))
          THEN StartSend(u, c, c.idx + 1)
          ELSE /\ creates' = [creates EXCEPT ![u] = Replied(c, "201")]
               /\ UNCHANGED paneInput
       /\ UNCHANGED << registry, clock, tmuxLive, panes, wsVars, listVars,
                       killVars, phaseVars, clientVars, inputVars, callVars, tmuxDir, pipes, quiet >>

\* ------------------------------------------------ routes/workspaces.ts
\* request bodies of POST /workspaces; "" is a field left out or empty
WorkspaceBodies == [name : {"", "web"}, path : {"", "/srv/web"}]
NewWorkspaceId == "w2"      \* uuidv4()

\* a slip that asks for the name only
missingName(body) == body.name = ""

\* !name || !path
missingFields(body) == body.name = "" \/ body.path = ""

\* db.createWorkspace: the table with the new row
createWorkspace(table, id, body) ==
    [w \in DOMAIN table \cup {id} |-> IF w = id THEN body.path ELSE table[w]]

\* POST /workspaces; the reply is kept with the table it leaves
PostWorkspace ==
    /\ callIn.op = "postWorkspace"
    /\ callOut = Pending
    /\ callOut' = IF missingFields(callIn.body)
                  THEN [status |-> "400", table |-> WorkspacePath]
                  ELSE [status |-> "201",
                        table |-> createWorkspace(WorkspacePath, NewWorkspaceId,
                                                  callIn.body)]
    /\ UNCHANGED << registry, clock, tmuxLive, panes, wsVars, listVars, killVars,
                    createVars, phaseVars, clientVars, inputVars, callIn, quiet >>

\* ------------------------------------------------------- environment (2)
\* time passes
ClockTick ==
    /\ clock < MaxClock
    /\ clock' = clock + 1
    /\ UNCHANGED << registry, tmuxLive, panes, wsVars, routeVars, quiet >>

\* a session of that name is started outside the server
SessionAppears(s) ==
    /\ s \notin tmuxLive
    /\ tmuxLive' = tmuxLive \cup {s}
    /\ killedNames' = killedNames \ {s}
    /\ quiet' = FALSE
    /\ UNCHANGED << registry, clock, panes, wsVars, listVars, kills, killResult,
                    createVars, phaseVars, clientVars, inputVars, callVars >>

\* ------------------------------------------------------------ web client
\* the web client before App mounts
SockIds == 1..MaxSockets
NoContent == [none |-> TRUE]
NoView == [page |-> "unmounted"]
NothingSent == [none |-> TRUE]
NewTerminal == [shown |-> << >>, prevContentLength |-> 0]

\* the rest of the model, which the client's handlers leave alone
serverVars == << registry, clock, tmuxLive, panes, wsVars, listVars, killVars,
                 createVars, phaseVars, inputVars, callVars, quiet >>

MAX_RECONNECT_ATTEMPTS == 10

\* the sessions the client has loaded (GET /sessions/:id): one window with two
\* panes, the active pane as the server stores it
ViewIds == {"s1", "s2"}
SessionData(id) ==
    [tmuxSession |-> id, activePane |-> paneTarget(0, 0),
     windows |-> << [index |-> 0, panes |-> << 0, 1 >>] >>]
ViewParams == {NoParam, paneTarget(0, 1)}
DetailViews == [page : {"detail"}, id : ViewIds, paneParam : ViewParams]
Views == {[page |-> "sessions"], [page |-> "settings"]} \cup DetailViews

\* SessionDetailPage: paneKey of the page on screen
detailPaneKey(v) == clientPaneKey(SessionData(v.id), v.paneParam)

\* SessionCard: paneKey
cardPaneKey(session) ==
    IF session.activePane # << >> THEN session.activePane
    ELSE << session.tmuxSession, ":" >> \o paneTarget(0, 0)

StoreKeys ==
    {detailPaneKey(v) : v \in DetailViews}
        \cup {cardPaneKey(SessionData(id)) : id \in ViewIds}

\* sessionStore.setSnapshot
setSnapshot(buffers, paneKey, text) ==
    [buffers EXCEPT ![paneKey] = [content |-> text]]

\* handleMessage for a snapshot message
HandleMessage(msg) ==
    /\ msg.type = "snapshot"
    /\ outputBuffers' = setSnapshot(outputBuffers, msg.paneKey, msg.text)
    /\ UNCHANGED << socketVars, view, subscribeSent, xtermContent, terminal,
                    serverVars >>

\* SessionDetailPage: rawOutput
rawOutput(v) ==
    IF outputBuffers[detailPaneKey(v)] = NoContent THEN << >>
    ELSE outputBuffers[detailPaneKey(v)].content

\* SessionCard: getLastInterestingLine(outputBuffer?.content) for lines of
\* at most maxLength characters; null is NoContent
getLastInterestingLine(buffer) ==
    IF buffer = NoContent \/ buffer.content = << >> THEN NoContent
    ELSE LET lines == SelectSeq(split(buffer.content, "\n"),
                               LAMBDA line : trim(line) # << >>)
         IN IF Len(lines) = 0 THEN NoContent
            ELSE [line |-> trim(lines[Len(lines)])]

\* SessionCard: previewText
previewText(id) ==
    getLastInterestingLine(outputBuffers[cardPaneKey(SessionData(id))])

\* the sockets on which a close event is still to come
FreeSockets == {s \in SockIds : sockets[s] = "none"}
\* new WebSocket(url)
NewSocket == CHOOSE s \in FreeSockets : \A o \in FreeSockets : s <= o

\* WebSocket.close(): the close event follows later
closeSocket(socks, s) ==
    [socks EXCEPT ![s] = IF @ \in {"CONNECTING", "OPEN"} THEN "CLOSING" ELSE @]

\* send: the message leaves only on an open wsInstance
canSend(socks, instance) == instance # 0 /\ socks[instance] = "OPEN"

\* SessionDetailPage, the subscription effect: its dependencies, and the
\* subscribe it has sent after the page, the pane or isConnected changed (the
\* unsubscribe of its cleanup leaves the same way, or not at all)
effectDeps(v, connected) ==
    IF v.page = "detail" THEN << v.id, detailPaneKey(v), connected >>
    ELSE << "", << >>, connected >>

runEffect(v, connected, socks, instance) ==
    IF effectDeps(v, connected) = effectDeps(view, wsConnected) THEN subscribeSent
    ELSE IF v.page = "detail" /\ connected /\ canSend(socks, instance)
    THEN [socket |-> instance, id |-> v.id, paneKey |-> detailPaneKey(v),
          mark |-> nextCall]
    ELSE NothingSent

\* connect()
connect ==
    IF wsInstance # 0 /\ sockets[wsInstance] \in {"OPEN", "CONNECTING"}
    THEN UNCHANGED << sockets, wsInstance >>
    ELSE /\ FreeSockets # {}
         /\ sockets' = [(IF wsInstance # 0 THEN closeSocket(sockets, wsInstance)
                         ELSE sockets) EXCEPT ![NewSocket] = "CONNECTING"]
         /\ wsInstance' = NewSocket

\* App mounts: its effect calls connect()
AppMount ==
    /\ view = NoView
    /\ view' = [page |-> "sessions"]
    /\ connect
    /\ UNCHANGED << reconnectAttempts, reconnectTimeout, connectTimers,
                    wsConnected, subscribeSent, outputBuffers, xtermContent,
                    terminal, serverVars >>

\* ws.onopen
SocketOpen(s) ==
    /\ sockets[s] = "CONNECTING"
    /\ sockets' = [sockets EXCEPT ![s] = "OPEN"]
    /\ wsConnected' = TRUE
    /\ reconnectAttempts' = 0
    /\ subscribeSent' = runEffect(view, TRUE, sockets', wsInstance)
    /\ UNCHANGED << wsInstance, reconnectTimeout, connectTimers, view,
                    outputBuffers, xtermContent, terminal, serverVars >>

\* ws.onclose: the connection failed, was lost, or close() had been called
SocketClosed(s) ==
    /\ sockets[s] \in {"CONNECTING", "OPEN", "CLOSING"}
    /\ sockets' = [sockets EXCEPT ![s] = "CLOSED"]
    /\ wsConnected' = FALSE
    /\ wsInstance' = 0
    /\ IF reconnectAttempts < MAX_RECONNECT_ATTEMPTS
       THEN /\ reconnectAttempts' = reconnectAttempts + 1
            /\ reconnectTimeout' = TRUE
       ELSE UNCHANGED << reconnectAttempts, reconnectTimeout >>
    /\ subscribeSent' = runEffect(view, FALSE, sockets', 0)
    /\ UNCHANGED << connectTimers, view, outputBuffers, xtermContent, terminal,
                    serverVars >>

\* a closed socket is forgotten
SocketCollected(s) ==
    /\ sockets[s] = "CLOSED"
    /\ sockets' = [sockets EXCEPT ![s] = "none"]
    /\ UNCHANGED << wsInstance, reconnectAttempts, reconnectTimeout, connectTimers,
                    wsConnected, view, subscribeSent, outputBuffers, xtermContent,
                    terminal, serverVars >>

\* the reconnect timer fires
ReconnectFire ==
    /\ reconnectTimeout
    /\ reconnectTimeout' = FALSE
    /\ connect
    /\ UNCHANGED << reconnectAttempts, connectTimers, wsConnected, view,
                    subscribeSent, outputBuffers, xtermContent, terminal,
                    serverVars >>

\* SettingsPage handleSave and handleClear: disconnect(), then connect() after
\* 100 ms
HandleSave ==
    /\ view.page = "settings"
    /\ connectTimers < MaxSaves
    /\ reconnectTimeout' = FALSE
    /\ reconnectAttempts' = MAX_RECONNECT_ATTEMPTS
    /\ sockets' = IF wsInstance # 0 THEN closeSocket(sockets, wsInstance)
                  ELSE sockets
    /\ wsInstance' = 0
    /\ wsConnected' = FALSE
    /\ connectTimers' = connectTimers + 1
    /\ subscribeSent' = runEffect(view, FALSE, sockets', 0)
    /\ UNCHANGED << view, outputBuffers, xtermContent, terminal, serverVars >>

\* the timer of handleSave or handleClear fires
ConnectTimerFire ==
    /\ connectTimers > 0
    /\ connectTimers' = connectTimers - 1
    /\ connect
    /\ UNCHANGED << reconnectAttempts, reconnectTimeout, wsConnected, view,
                    subscribeSent, outputBuffers, xtermContent, terminal,
                    serverVars >>

\* the pages whose component uses useWebSocket and is unmounted on leaving
usesHook(v) == v.page \in {"detail", "settings"}

\* the user goes to another page, session or pane; a page that is left runs
\* the cleanup of useWebSocket
Navigate(v) ==
    /\ view # NoView
    /\ v # view
    /\ view' = v
    /\ reconnectTimeout' = IF usesHook(view) /\ v.page # view.page THEN FALSE
                           ELSE reconnectTimeout
    /\ subscribeSent' = runEffect(v, wsConnected, sockets, wsInstance)
    /\ UNCHANGED << sockets, wsInstance, reconnectAttempts, connectTimers,
                    wsConnected, outputBuffers, xtermContent, terminal,
                    serverVars >>

\* ------------------------------------------- the client and the server
\* the first socket of the client is connection A of the server, the next B
SocketOf(c) == IF c = "A" THEN 1 ELSE 2
ConnOfSocket(s) == IF s = 1 THEN "A" ELSE "B"

\* JSON.stringify of a string kept in pieces
RECURSIVE stringify(_)
stringify(pieces) ==
    IF pieces = << >> THEN "" ELSE Head(pieces) \o stringify(Tail(pieces))

\* fastify.get('/ws'): the handler of a new connection
ServerAccept(c) ==
    /\ sockets[SocketOf(c)] = "CONNECTING"
    /\ ~open[c]
    /\ open' = [open EXCEPT ![c] = TRUE]
    /\ UNCHANGED << registry, clock, tmuxLive, panes, subscriptions, timers, calls,
                    nextCall, ticks, capSeq, log, delivered, flip, recording,
                    unsubscribed, routeVars, quiet >>

\* the handshake is over: ws.onopen
ClientOpen(s) == open[ConnOfSocket(s)] /\ SocketOpen(s)

\* the subscribe the session page has sent reaches the server
SubscribeArrives(k) ==
    /\ subscribeSent # NothingSent
    /\ subscribeSent.mark = nextCall
    /\ k = << ConnOfSocket(subscribeSent.socket), subscribeSent.id,
              stringify(subscribeSent.paneKey) >>
    /\ RecvSubscribe(k)

\* the latest snapshot the server has sent reaches ws.onmessage
SnapshotArrives(k) ==
    /\ sockets[SocketOf(ConnOf(k))] = "OPEN"
    /\ delivered[k] # None
    /\ \E paneKey \in StoreKeys :
          /\ stringify(paneKey) = k[3]
          /\ outputBuffers[paneKey] # [content |-> delivered[k]]
          /\ HandleMessage([type |-> "snapshot", sessionId |-> k[2],
                            paneKey |-> paneKey, text |-> delivered[k]])

\* the user opens the page of a session
OpenView(v) == view.page = "sessions" /\ Navigate(v)

\* the connection is lost: the close event of the client, and of the server
ConnectionLost == sockets[1] = "OPEN" /\ SocketClosed(1)
ServerClose == sockets[1] \in {"OPEN", "CLOSED"} /\ SocketClose("A")

\* ------------------------------------------------------------ XTermView.tsx
\* the content effect: what the terminal shows after it ran; write() adds to
\* what is shown, clear() is taken to empty the terminal
writeContent(term, text) ==
    LET prevLength == term.prevContentLength
        newLength == Len(text)
    IN [shown |-> IF newLength > prevLength
                  THEN term.shown \o SubSeq(text, prevLength + 1, newLength)
                  ELSE IF newLength < prevLength THEN text
                  ELSE term.shown,
        prevContentLength |-> newLength]

\* the content prop changes and the effect runs
ContentUpdate(text) ==
    /\ text # xtermContent
    /\ xtermContent' = text
    /\ terminal' = writeContent(terminal, text)
    /\ UNCHANGED << socketVars, view, subscribeSent, outputBuffers, serverVars >>

\* ---------------------------------------------------------- specification
\* no function is being called on its own
InitNoCall ==
    /\ callIn = [op |-> "none"]
    /\ callOut = Pending

\* no unsubscribe is remembered
NoTrack == [on |-> FALSE, keys |-> {}]

InitNoClient ==
    /\ sockets = [s \in SockIds |-> "none"]
    /\ wsInstance = 0
    /\ reconnectAttempts = 0
    /\ reconnectTimeout = FALSE
    /\ connectTimers = 0
    /\ wsConnected = FALSE
    /\ view = NoView
    /\ subscribeSent = NothingSent
    /\ outputBuffers = [k \in StoreKeys |-> NoContent]
    /\ xtermContent = << >>
    /\ terminal = NewTerminal

\* the server on its own
InitServerOnly == unsubscribed = NoTrack /\ InitNoClient

InitRoutes ==
    /\ listPc = "idle"
    /\ listDb = << >>
    /\ listLive = << >>
    /\ listResult = << >>
    /\ listPrev = NoReply
    /\ listKilled = {}
    /\ kills = {}
    /\ killedNames = {}
    /\ killResult = "none"
    /\ quiet = FALSE
    /\ creates = [u \in Uuids |-> IdleCreate]
    /\ tmuxDir = [n \in Range(TmuxNames) |-> ElsewhereDir]
    /\ pipes = [n \in Range(TmuxNames) |-> 0]
    /\ paneInput = [n \in Range(TmuxNames) |-> << >>]
    /\ inputs = [n \in InputIds |-> IdleInput]
    /\ nextInput = 1
    /\ sendCount = 0
    /\ lastSend = NoSend

\* detectPhase is not being called
InitNoPhase ==
    /\ phaseText = EmptyString
    /\ phaseOut = "none"

\* the server with the row of session s1
InitServer ==
    /\ registry = [id \in SessionIds |->
                     [id |-> id, tmuxSession |-> id, status |-> StatusRUNNING,
                      phase |-> "IDLE", lastActivityAt |-> 0,
                      discovered |-> FALSE]]
    /\ clock = 1
    /\ panes = [pn \in PaneIds |-> 1]
    /\ InitRoutes
    /\ InitNoPhase
    /\ InitNoCall
    /\ subscriptions = [k \in SubKeys |-> None]
    /\ timers = {}
    /\ calls = [i \in CallIds |-> IdleCall]
    /\ nextCall = 1
    /\ ticks = EmptyBag
    /\ capSeq = 0
    /\ log = [k \in SubKeys |-> << >>]
    /\ delivered = [k \in SubKeys |-> None]
    /\ flip = [k \in SubKeys |-> FALSE]

InitCommon == InitServer /\ tmuxLive = SessionIds

\* one client is connected
InitOneSocket == open = [c \in Conns |-> c = "A"]

Init == InitCommon /\ InitOneSocket /\ recording = TRUE /\ InitServerOnly

\* connections whose clients ask for the keys in K
NextOn(K) ==
    \/ \E k \in K : RecvSubscribe(k)
    \/ \E i \in CallIds : SubscribeCaptured(i)
    \/ \E i \in CallIds : SubscribeFailed(i)
    \/ \E t \in CallIds : TickStart(t)
    \/ \E tk \in BagToSet(ticks) : TickCaptured(tk)
    \/ \E tk \in BagToSet(ticks) : TickFailed(tk)
    \/ \E k \in K : RecvUnsubscribe(k)
    \/ \E c \in {ConnOf(k) : k \in K} : SocketClose(c)
    \/ \E k \in K : PaneOutput(k)
    \/ \E s \in SessionIds : SessionExit(s)

Next == NextOn({k \in KeysOf("A") : PaneOf(k) \in PaneIds})

Spec == Init /\ [][Next]_vars

\* The same server observed without its history, so that polling can go on
\* for ever.  Node fires an interval that is not cleared, and every tmux
\* process that was spawned exits.
InitLive == InitCommon /\ InitOneSocket /\ recording = FALSE /\ InitServerOnly

TickRecords == [timer : CallIds, seq : {0}, res : Texts \cup {Gone}]

Fairness ==
    /\ \A i \in CallIds : WF_vars(SubscribeCaptured(i) \/ SubscribeFailed(i))
    /\ SF_vars(\E t \in CallIds : TickStart(t))
    /\ \A tk \in TickRecords : WF_vars(TickCaptured(tk) \/ TickFailed(tk))

\* the liveness runs follow the pane the client has on screen
LiveKeys == {<< "A", "s1", "0.0" >>}
NextLive == NextOn(LiveKeys)

SpecLive == InitLive /\ [][NextLive]_vars /\ Fairness

\* One client follows a pane; the unsubscribes the server has handled are
\* remembered.
InitUnsubscribe ==
    /\ InitCommon
    /\ InitOneSocket
    /\ recording = TRUE
    /\ unsubscribed = [on |-> TRUE, keys |-> {}]
    /\ InitNoClient

SpecUnsubscribe == InitUnsubscribe /\ [][NextLive]_vars

\* One client follows a pane and types into it; s0 is a tmux session that
\* has no row.
InitInput ==
    /\ InitServer
    /\ tmuxLive = InputSessionIds
    /\ InitOneSocket
    /\ recording = FALSE /\ InitServerOnly

NextInput ==
    \/ \E k \in LiveKeys : RecvSubscribe(k)
    \/ \E i \in CallIds : SubscribeCaptured(i)
    \/ SocketClose("A")
    \/ \E sid \in InputSessionIds : \E data \in InputData : \E mode \in InputModes :
          RecvInput("A", sid, "0.0", data, mode)
    \/ \E sid \in InputSessionIds : \E key \in KeyNames :
          RecvKey("A", sid, "0.0", key)
    \/ \E n \in InputIds : DeliveryDone(n)

SpecInput == InitInput /\ [][NextInput]_vars

\* Two clients are connected and both follow the same pane.
InitConns ==
    /\ InitCommon
    /\ open = [c \in Conns |-> TRUE]
    /\ recording = TRUE /\ InitServerOnly

SharedPaneKeys == {k \in SubKeys : PaneOf(k) = << "s1", "0.0" >>}
NextConns == NextOn(SharedPaneKeys)

SpecConns == InitConns /\ [][NextConns]_vars

\* The session routes: two sessions the server created, one name that can
\* appear without a row; no socket is connected.
\* no socket is connected
InitNoSocket ==
    /\ panes = [pn \in PaneIds |-> 1]
    /\ InitRoutes
    /\ open = [c \in Conns |-> FALSE]
    /\ subscriptions = [k \in SubKeys |-> None]
    /\ timers = {}
    /\ calls = [i \in CallIds |-> IdleCall]
    /\ nextCall = 1
    /\ ticks = EmptyBag
    /\ capSeq = 0
    /\ log = [k \in SubKeys |-> << >>]
    /\ delivered = [k \in SubKeys |-> None]
    /\ flip = [k \in SubKeys |-> FALSE]

InitRegRows ==
    /\ registry = [id \in RegIds |->
                     [id |-> id, tmuxSession |-> TmuxNameOf[id],
                      status |-> StatusRUNNING, phase |-> "IDLE",
                      lastActivityAt |-> 0, discovered |-> FALSE]]
    /\ clock = 0
    /\ tmuxLive = {TmuxNameOf[id] : id \in RegIds}
    /\ InitNoSocket
    /\ InitNoPhase
    /\ InitNoCall

InitReg == InitRegRows /\ recording = FALSE /\ InitServerOnly

NextReg ==
    \/ ListRead
    \/ ListReply
    \/ \E id \in KillTargets : KillStart(id)
    \/ \E k \in kills : KillReply(k)
    \/ ClockTick
    \/ \E s \in Range(TmuxNames) : SessionExit(s)
    \/ \E s \in Range(TmuxNames) : SessionAppears(s)

SpecReg == InitReg /\ [][NextReg]_vars

\* The session routes observed with the history of their replies and kills,
\* within one reading of the clock.
InitHist == InitRegRows /\ recording = TRUE /\ InitServerOnly

NextHist ==
    \/ ListRead
    \/ ListReply
    \/ \E id \in KillTargets : KillStart(id)
    \/ \E k \in kills : KillReply(k)
    \/ \E s \in Range(TmuxNames) : SessionExit(s)
    \/ \E s \in Range(TmuxNames) : SessionAppears(s)

SpecHist == InitHist /\ [][NextHist]_vars

\* One client follows a pane of a session the server created, while the
\* session is killed.
InitKillRace ==
    /\ registry = [id \in SessionIds |->
                     [id |-> id, tmuxSession |-> "ccp_1", status |-> StatusRUNNING,
                      phase |-> "IDLE", lastActivityAt |-> 0,
                      discovered |-> FALSE]]
    /\ clock = 1
    /\ tmuxLive = {"ccp_1"}
    /\ panes = [pn \in PaneIds |-> 1]
    /\ InitRoutes
    /\ InitOneSocket
    /\ subscriptions = [k \in SubKeys |-> None]
    /\ timers = {}
    /\ calls = [i \in CallIds |-> IdleCall]
    /\ nextCall = 1
    /\ ticks = EmptyBag
    /\ capSeq = 0
    /\ log = [k \in SubKeys |-> << >>]
    /\ delivered = [k \in SubKeys |-> None]
    /\ flip = [k \in SubKeys |-> FALSE]
    /\ InitNoPhase
    /\ InitNoCall
    /\ recording = FALSE /\ InitServerOnly

NextKillRace ==
    \/ \E k \in LiveKeys : RecvSubscribe(k)
    \/ \E i \in CallIds : SubscribeCaptured(i)
    \/ \E i \in CallIds : SubscribeFailed(i)
    \/ \E t \in CallIds : TickStart(t)
    \/ \E tk \in BagToSet(ticks) : TickCaptured(tk)
    \/ \E tk \in BagToSet(ticks) : TickFailed(tk)
    \/ \E k \in LiveKeys : PaneOutput(k)
    \/ \E id \in SessionIds : KillStart(id)
    \/ \E k \in kills : KillReply(k)

SpecKillRace == InitKillRace /\ [][NextKillRace]_vars

\* POST /sessions: one row whose session has ended; no session ends while
\* the handlers run.
InitCreate ==
    /\ registry = [id \in {"id1"} \cup Uuids |->
                     IF id = "id1"
                     THEN [id |-> id, tmuxSession |-> TmuxNameOf[id],
                           status |-> StatusEXITED, phase |-> NULL,
                           lastActivityAt |-> 0, discovered |-> FALSE]
                     ELSE None]
    /\ clock = 0
    /\ tmuxLive = {}
    /\ InitNoSocket
    /\ InitNoPhase
    /\ InitNoCall
    /\ recording = FALSE /\ InitServerOnly

NextCreate ==
    \/ \E u \in Uuids, body \in Bodies : CreateStart(u, body)
    \/ \E u \in Uuids : CreateSessionDone(u)
    \/ \E u \in Uuids : PipeDone(u)
    \/ \E u \in Uuids : SendDone(u)
    \/ \E u \in Uuids : DelayDone(u)

SpecCreate == InitCreate /\ [][NextCreate]_vars

\* The requests that create: a POST /workspaces among the POST /sessions.
InitRequests ==
    /\ registry = [id \in {"id1"} \cup Uuids |->
                     IF id = "id1"
                     THEN [id |-> id, tmuxSession |-> TmuxNameOf[id],
                           status |-> StatusEXITED, phase |-> NULL,
                           lastActivityAt |-> 0, discovered |-> FALSE]
                     ELSE None]
    /\ clock = 0
    /\ tmuxLive = {}
    /\ InitNoSocket
    /\ InitNoPhase
    /\ callIn \in [op : {"postWorkspace"}, body : WorkspaceBodies]
    /\ callOut = Pending
    /\ recording = FALSE /\ InitServerOnly

NextRequests ==
    \/ PostWorkspace
    \/ \E u \in Uuids, body \in Bodies : CreateStart(u, body)
    \/ \E u \in Uuids : CreateSessionDone(u)
    \/ \E u \in Uuids : PipeDone(u)
    \/ \E u \in Uuids : SendDone(u)
    \/ \E u \in Uuids : DelayDone(u)

SpecRequests == InitRequests /\ [][NextRequests]_vars

\* The functions of the adapter and of the client, each on its own; the
\* server is idle.
InitIdle ==
    /\ registry = [id \in RegIds |-> None]
    /\ clock = 0
    /\ tmuxLive = {}
    /\ InitNoSocket
    /\ InitNoPhase
    /\ recording = FALSE /\ InitServerOnly

\* what tmux writes to stderr when it exits non-zero
StderrTexts ==
    { << "no", " ", "server", " ", "running", " ", "on", " ", "/tmp/tmux-0/default" >>,
      << "error", " ", "connecting", " ", "to", " ", "/tmp/tmux-0/default", " ",
         "(", "No", " ", "such", " ", "file", " ", "or", " ", "directory", ")" >>,
      << "error", " ", "connecting", " ", "to", " ", "/tmp/tmux-0/default", " ",
         "(", "Permission", " ", "denied", ")" >>,
      << "no", " ", "sessions" >>,
      << "No", " ", "such", " ", "file", " ", "or", " ", "directory" >>,
      << "no", " ", "current", " ", "session" >>,
      << "protocol", " ", "version", " ", "mismatch" >>,
      << "server", " ", "exited", " ", "unexpectedly" >>,
      << >> }

\* session names tmux may list
ListedNames == { << "ccp_", "a1" >>, << "ccp_" >>, << "dev" >>, << "x", "ccp_" >> }

ListedSequences ==
    UNION {[1..n -> ListedNames] : n \in 0..MaxListed}

\* execTmux on its own: the arguments, and what the spawned process does:
\* it exits (with a code or by a signal), it cannot be spawned, or it never
\* exits.  Nothing in execTmux acts on a process that stays.
ExecArgs ==
    { << "list-sessions" >>, << "has-session", "-t", "s1" >>,
      << "kill-session", "-t", "s1" >>, << "capture-pane", "-t", "s1:0.0" >> }
ExecExits == { [code |-> 0], [code |-> 1], [signal |-> "SIGTERM"] }
ExecInputs ==
    [op : {"execTmux"}, args : ExecArgs, process : {"exits", "fails", "stays"},
     exit : ExecExits, stdout : {<< >>, << "out" >>}, stderr : {<< >>, << "err" >>}]

InitExec ==
    /\ InitIdle
    /\ callIn \in ExecInputs
    /\ callOut = Pending

NextExec == ExecClose \/ ExecError

\* Node runs the listener of every event that was emitted
SpecExec == InitExec /\ [][NextExec]_vars /\ WF_vars(ExecClose) /\ WF_vars(ExecError)

\* list-sessions -F '#{session_name}' prints one name per line
RECURSIVE printLines(_)
printLines(lines) ==
    IF lines = << >> THEN << >>
    ELSE Head(lines) \o << "\n" >> \o printLines(Tail(lines))

ListSessionsInputs ==
    { [op |-> "listSessions", names |-> names,
       result |-> [code |-> code, stderr |-> stderr,
                   stdout |-> IF code = 0 THEN printLines(names) ELSE << >>]] :
        names \in ListedSequences, code \in {0, 1}, stderr \in StderrTexts }

InitListSessions ==
    /\ InitIdle
    /\ callIn \in ListSessionsInputs
    /\ callOut = Pending

NextListSessions == ListSessionsReturn

SpecListSessions == InitListSessions /\ [][NextListSessions]_vars

\* the panes tmux may list: index, id, active flag and current path
PathChars == {"/", "a", ":", " "}
\* absolute paths
Paths == {path \in UNION {[1..n -> PathChars] : n \in 1..MaxPathLen} : path[1] = "/"}
PaneRecords ==
    [index : {0, 1, 12}, id : {<< "%", "0" >>, << "%", "1", "2" >>},
     active : BOOLEAN, currentPath : Paths]

\* a pane that may be listed after the pane in question
LaterPane == [index |-> 13, id |-> << "%", "1", "3" >>, active |-> FALSE,
              currentPath |-> << "/", "a" >>]

\* #{pane_index}:#{pane_id}:#{pane_active}:#{pane_current_path}
printPane(pane) ==
    NumberString(pane.index) \o << ":" >> \o pane.id \o << ":" >>
        \o << IF pane.active THEN "1" ELSE "0" >> \o << ":" >> \o pane.currentPath

ListPanesInputs ==
    { [op |-> "listPanes", panes |-> listed,
       result |-> [code |-> 0, stderr |-> << >>,
                   stdout |-> printLines([n \in 1..Len(listed) |-> printPane(listed[n])])]] :
        listed \in {<< pane >> : pane \in PaneRecords}
                     \cup {<< pane, LaterPane >> : pane \in PaneRecords} }

InitListPanes ==
    /\ InitIdle
    /\ callIn \in ListPanesInputs
    /\ callOut = Pending

NextListPanes == ListPanesReturn

SpecListPanes == InitListPanes /\ [][NextListPanes]_vars

\* the session page: what GET /sessions/:id returned and the ?pane= parameter
\* of the URL
ClientWindows ==
    { << >>,
      << [index |-> 0, panes |-> << 0 >>] >>,
      << [index |-> 0, panes |-> << 0, 1 >>] >>,
      << [index |-> 0, panes |-> << 0 >>], [index |-> 1, panes |-> << 0 >>] >>,
      << [index |-> 1, panes |-> << 1 >>] >> }

ClientSessions ==
    [tmuxSession : {"ccp_1", "ccp_2"}, activePane : {paneTarget(0, 0)},
     windows : ClientWindows]

PaneParams ==
    {NoParam, << >>, paneTarget(0, 0), paneTarget(0, 1), paneTarget(1, 0),
     paneTarget(9, 9)}

ClientInputs ==
    [op : {"subscribe", "input", "key"}, session : ClientSessions,
     paneParam : PaneParams]

InitClient ==
    /\ InitIdle
    /\ callIn \in ClientInputs
    /\ callOut = Pending

NextClient == ClientSend

SpecClient == InitClient /\ [][NextClient]_vars

\* The web client on its own: its socket, its timers and its pages.
NextSocket ==
    \/ AppMount
    \/ \E s \in SockIds : SocketOpen(s)
    \/ \E s \in SockIds : SocketClosed(s)
    \/ \E s \in SockIds : SocketCollected(s)
    \/ ReconnectFire
    \/ HandleSave
    \/ ConnectTimerFire
    \/ \E v \in Views : Navigate(v)

InitWebClient == InitIdle /\ InitNoCall

SpecSocket == InitWebClient /\ [][NextSocket]_vars

\* The client and the server together: the user opens the page of a session,
\* the connection is lost once and the client connects again.  Timers fire,
\* handshakes end and messages on an open connection arrive.
WatchViews == {v \in DetailViews : v.id \in SessionIds}

InitReconnect ==
    /\ InitCommon
    /\ open = [c \in Conns |-> FALSE]
    /\ recording = FALSE
    /\ InitServerOnly

NextReconnect ==
    \/ AppMount
    \/ \E v \in WatchViews : OpenView(v)
    \/ \E c \in Conns : ServerAccept(c)
    \/ \E s \in SockIds : ClientOpen(s)
    \/ ConnectionLost
    \/ ServerClose
    \/ ReconnectFire
    \/ \E k \in SubKeys : SubscribeArrives(k)
    \/ \E i \in CallIds : SubscribeCaptured(i)
    \/ \E i \in CallIds : SubscribeFailed(i)
    \/ \E t \in CallIds : TickStart(t)
    \/ \E tk \in BagToSet(ticks) : TickCaptured(tk)
    \/ \E k \in SubKeys : SnapshotArrives(k)
    \/ \E k \in KeysOf("A") : PaneOf(k) \in PaneIds /\ PaneOutput(k)

FairReconnect ==
    /\ Fairness
    /\ \A t \in CallIds : SF_vars(TickStart(t))
    /\ WF_vars(ReconnectFire)
    /\ WF_vars(\E c \in Conns : ServerAccept(c))
    /\ WF_vars(\E s \in SockIds : ClientOpen(s))
    /\ WF_vars(\E k \in SubKeys : SubscribeArrives(k))
    /\ WF_vars(\E k \in SubKeys : SnapshotArrives(k))

SpecReconnect == InitReconnect /\ [][NextReconnect]_vars /\ FairReconnect

\* The store of the client and the snapshots of two sessions.
Contents ==
    { << "$", " ", "ls", "\n" >>,
      << "$", " ", "ls", "\n", "Error", "\n", " ", "\n" >>,
      << " ", "\n" >>,
      << >> }
SnapshotMessages ==
    UNION {[type : {"snapshot"}, sessionId : {v.id}, paneKey : {detailPaneKey(v)},
            text : Contents] : v \in DetailViews}

NextStore == \E msg \in SnapshotMessages : HandleMessage(msg)

SpecStore == InitWebClient /\ [][NextStore]_vars

\* XTermView on its own.
XTermContents == UNION {[1..n -> {"a", "b", "\n"}] : n \in 0..MaxContent}

NextXTerm == \E text \in XTermContents : ContentUpdate(text)

SpecXTerm == InitWebClient /\ [][NextXTerm]_vars

\* The phase detector on its own: texts of one first line, filler lines that
\* match nothing, and one last line.
LineKinds ==
    { {}, {"WAITING"}, {"ERROR"}, {"TESTING"}, {"BUILDING"}, {"CODING"},
      {"PROMPT_END"}, {"WAITING", "ERROR"}, {"ERROR", "PROMPT_END"},
      {"TESTING", "BUILDING", "CODING"} }

PhaseInputs ==
    { [name |-> "input", lines |-> << first >> \o [i \in 1..fill |-> {}] \o << last >>] :
          first \in LineKinds, last \in LineKinds, fill \in 0..(MaxLines - 2) }

InitPhase ==
    /\ registry = [id \in RegIds |-> None]
    /\ clock = 0
    /\ tmuxLive = {}
    /\ InitNoSocket
    /\ recording = FALSE /\ InitServerOnly
    /\ phaseText \in PhaseInputs
    /\ phaseOut = "none"
    /\ InitNoCall

NextPhase == Classify

SpecPhase == InitPhase /\ [][NextPhase]_vars

\* ------------------------------------------------------------------ claims
TimersOf(k) == {t \in timers : calls[t].key = k}
Snapshots(k) == SelectSeq(log[k], LAMBDA m : m.type = "snapshot")
PaneText(k) == PaneScript[panes[PaneOf(k)]]
Active(k) ==
    /\ open[ConnOf(k)]
    /\ subscriptions[k] # None
    /\ TmuxSessionName(lookupSession(sessionOf(k)), sessionOf(k)) \in tmuxLive

\* C1: on one connection at most one poll timer is ever active for a
\* (sessionId, paneKey), whatever the order and interleaving of subscribes.
C1_AtMostOneTimerPerKey ==
    \A k \in SubKeys : Cardinality(TimersOf(k)) <= 1

\* C2: once the close event of the connection has been handled, no poll timer
\* created for the connection is active (so none can fire).
C2_NoTimerAfterClose ==
    \A c \in Conns : ~open[c] => {t \in timers : ConnOf(calls[t].key) = c} = {}

\* C3: the step that handles an unsubscribe for a key leaves zero active poll
\* timers for that key.
C3_UnsubscribeLeavesNoTimer ==
    [][\A k \in SubKeys : RecvUnsubscribe(k) => (TimersOf(k))' = {}]_vars

\* C4: a snapshot sent by a poll tick differs from the snapshot delivered just
\* before it for the same pane, the initial snapshot of a subscribe included.
C4_TickSendsOnlyChanges ==
    \A k \in SubKeys : \A j \in 2..Len(Snapshots(k)) :
        Snapshots(k)[j].tick => Snapshots(k)[j].text # Snapshots(k)[j - 1].text

\* C5: the ticks of one timer are sequential: at most one of them is between
\* the start of its capture and the end of its sends.
C5_TicksSequential ==
    \A t \in CallIds : BagCardinality(TicksOf(t)) <= 1

\* C6: the snapshots sent for one pane are in the order in which their
\* captures started.
C6_SnapshotsInCaptureOrder ==
    \A k \in SubKeys : \A i, j \in 1..Len(Snapshots(k)) :
        i < j => Snapshots(k)[i].seq < Snapshots(k)[j].seq

\* C7: if a subscription stays Active (the connection stays open, the record
\* stays, captures keep succeeding) and the pane stops changing, then from
\* some point on the last snapshot delivered is the text of the pane and no
\* further snapshot is sent for it.
C7_ConvergesToPane ==
    \A k \in LiveKeys :
        <>[]Active(k) =>
            /\ <>[](delivered[k] = PaneText(k))
            /\ (<>[]flip[k] \/ <>[](~flip[k]))

C7_Witness ==
    \E k \in LiveKeys :
        /\ Active(k)
        /\ panes[PaneOf(k)] = Len(PaneScript)
        /\ delivered[k] = PaneText(k)
        /\ subscriptions[k].lastContent = PaneText(k)
        /\ TimersOf(k) # {}

\* C8: a handleSubscribe whose initial capture succeeded on an open socket
\* has sent exactly one snapshot (of the captured text) directly followed by
\* one status, and everything its timer sent comes after these two; a
\* handleSubscribe still awaiting its capture has sent nothing.
C8_InitialSnapshotThenStatus ==
    \A i \in CallIds :
        LET lg == IF calls[i].pc = "idle" THEN << >> ELSE log[calls[i].key]
            mine == {p \in 1..Len(lg) : lg[p].call = i}
            initial == {p \in mine : ~lg[p].tick}
        IN /\ calls[i].pc \in {"idle", "capturing"} => mine = {}
           /\ (calls[i].pc = "done" /\ open[ConnOf(calls[i].key)]) =>
                 \E p \in initial :
                    /\ initial = {p, p + 1}
                    /\ lg[p].type = "snapshot"
                    /\ lg[p + 1].type = "status"
                    /\ \A q \in mine : q >= p

C8_Witness ==
    \E i \in CallIds :
        /\ calls[i].pc = "done" /\ open[ConnOf(calls[i].key)]
        /\ \E p \in 1..Len(log[calls[i].key]) :
              log[calls[i].key][p].call = i /\ log[calls[i].key][p].tick

\* C9: the step in which a poll tick's capture fails stops the timer the tick
\* belongs to, removes the record of its key, sends nothing, and leaves the
\* records and timers of every other key as they were.
C9_TickFailureEndsOwnSubscription ==
    [][\A tk \in BagToSet(ticks) : TickFailed(tk) =>
          LET k == calls[tk.timer].key
          IN /\ tk.timer \notin timers'
             /\ subscriptions'[k] = None
             /\ log' = log
             /\ \A k2 \in SubKeys \ {k} :
                   /\ subscriptions'[k2] = subscriptions[k2]
                   /\ (TimersOf(k2))' = TimersOf(k2)]_vars

\* C10: the step in which GET /sessions replies, relative to the rows it read
\* and the live names it observed: a row read as EXITED whose name is live is
\* stored and returned as RUNNING, a row read as RUNNING whose name is absent
\* is stored and returned as EXITED, every other row is returned with the
\* status read and its stored status is not touched; so no returned row is
\* RUNNING with an absent name or EXITED with a live name.
C10_ReconcileFlipsStaleStatus ==
    [][(ListReply /\ listLive # Failed) =>
          \A n \in 1..Len(listDb) :
             LET row == listDb[n]
                 live == row.tmuxSession \in Range(listLive)
                 returned == listResult'[n].status
                 stored == registry'[row.id].status
             IN /\ listResult'[n].id = row.id
                /\ (live /\ row.status = StatusEXITED) =>
                      returned = StatusRUNNING /\ stored = StatusRUNNING
                /\ (~live /\ row.status = StatusRUNNING) =>
                      returned = StatusEXITED /\ stored = StatusEXITED
                /\ ~(live /\ row.status = StatusEXITED)
                     /\ ~(~live /\ row.status = StatusRUNNING) =>
                      returned = row.status /\ stored = registry[row.id].status
                /\ ~(returned = StatusRUNNING /\ ~live)
                /\ ~(returned = StatusEXITED /\ live)]_vars

\* a reply that flipped one row to RUNNING and another to EXITED
C10_Witness ==
    /\ listPc = "done"
    /\ \E a, b \in 1..Len(listDb) :
          /\ listDb[a].status = StatusEXITED /\ listResult[a].status = StatusRUNNING
          /\ listDb[b].status = StatusRUNNING /\ listResult[b].status = StatusEXITED
          /\ registry[listDb[a].id].status = StatusRUNNING
          /\ registry[listDb[b].id].status = StatusEXITED

\* C11: a GET /sessions that follows a completed one, with no change of tmux
\* or of the table by anyone else since the first one started, replies with
\* the same entries (ids, statuses, phases, timestamps) and writes nothing.
\* The order of rows of equal lastActivityAt is left to SQLite and is not
\* compared.
C11_ListIdempotent ==
    [][(ListReply /\ listLive # Failed /\ listPrev # NoReply) =>
          /\ Range(listResult') = Range(listPrev)
          /\ registry' = registry]_vars

\* C12: in the reply of GET /sessions every name list-sessions printed that no
\* row read from the table carries has exactly one entry, marked discovered;
\* no other entry is marked discovered; and the reply inserts no row.
C12_DiscoveredOnceNotStored ==
    [][(ListReply /\ listLive # Failed) =>
          LET known == {listDb[n].tmuxSession : n \in 1..Len(listDb)}
              entries(nm) == {n \in 1..Len(listResult') :
                                 listResult'[n].tmuxSession = nm}
          IN /\ \A nm \in Range(listLive) \ known :
                   /\ Cardinality(entries(nm)) = 1
                   /\ \A n \in entries(nm) : listResult'[n].discovered
             /\ \A n \in 1..Len(listResult') :
                   listResult'[n].discovered =>
                       listResult'[n].tmuxSession \in Range(listLive) \ known
             /\ {id \in DOMAIN registry' : registry'[id] # None}
                   = {id \in DOMAIN registry : registry[id] # None}
             /\ \A nm \in Range(listLive) \ known :
                   \A id \in DOMAIN registry' :
                      registry'[id] # None => registry'[id].tmuxSession # nm]_vars

\* a reply that carries a discovered session next to a stored one
C12_Witness ==
    /\ listPc = "done"
    /\ \E a, b \in 1..Len(listResult) :
          /\ listResult[a].discovered
          /\ ~listResult[b].discovered
          /\ \A id \in DOMAIN registry :
                registry[id] # None =>
                    registry[id].tmuxSession # listResult[a].tmuxSession

\* C13: the data of a reply of GET /sessions is in descending order of
\* lastActivityAt over all its entries.
C13_ListOrderedByActivity ==
    listPc = "done" =>
        \A a, b \in 1..Len(listResult) :
            a < b => listResult[a].lastActivityAt >= listResult[b].lastActivityAt

C15_FailedCreateLeavesNoRow ==
    [][\A u \in Uuids :
          (CreateSessionDone(u) /\ ~creates[u].ok) =>
              /\ creates'[u].pc = "500"
              /\ registry' = registry
              /\ registry'[u] = None]_vars

\* of two requests for the name ccp_2 one was served; new-session of the
\* other failed
C15_Witness ==
    /\ creates["2-a"].pc = "201"
    /\ creates["2-b"].pc = "500"
    /\ creates["2-b"].steps = << "new-session" >>
    /\ registry["2-b"] = None

\* the directory the specification resolves for a request
ExpectedDir(body) ==
    IF body.pathOverride # "" THEN body.pathOverride
    ELSE IF body.workspaceId # "" THEN WorkspacePath[body.workspaceId]
    ELSE DefaultDir

StoredIds == {id \in DOMAIN registry : registry[id] # None}

\* C16: the step of create that writes the table adds exactly one row, for the
\* new identifier, and changes no other; and the step that replies 201 leaves
\* that row with status RUNNING, phase IDLE and the name ccp_<shortId>, and a
\* live tmux session of that name started in the override if given, else in
\* the workspace's path, else in the default directory.
C16_CreateRecordAndSession ==
    [][\A u \in Uuids :
          /\ (creates[u].pc # "idle" /\ creates'[u] # creates[u]
                /\ registry' # registry) =>
                 /\ u \notin StoredIds
                 /\ StoredIds' = StoredIds \cup {u}
                 /\ \A o \in StoredIds : registry'[o] = registry[o]
          /\ (creates[u].pc # "201" /\ creates'[u].pc = "201") =>
                 /\ registry'[u] # None
                 /\ registry'[u].status = StatusRUNNING
                 /\ registry'[u].phase = "IDLE"
                 /\ registry'[u].tmuxSession = NewSessionName(u)
                 /\ NewSessionName(u) \in tmuxLive'
                 /\ tmuxDir'[NewSessionName(u)] = ExpectedDir(creates'[u].body)]_vars

\* a session was created in the override that came with a workspace
C16_Witness ==
    \E u \in Uuids :
        /\ creates[u].pc = "201"
        /\ creates[u].body.pathOverride # "" /\ creates[u].body.workspaceId # ""
        /\ tmuxDir[NewSessionName(u)] = creates[u].body.pathOverride
        /\ NewSessionName(u) \in tmuxLive
        /\ registry[u] # None

\* C17: the step that finds a preamble or autorun command failed replies
\* with an error and rolls nothing back: tmux and the table are as they
\* were, the session alive and the row present with status RUNNING.
C17_SendFailureKeepsSession ==
    [][\A u \in Uuids :
          (SendDone(u) /\ ~creates[u].ok) =>
              /\ creates'[u].pc = "500"
              /\ tmuxLive' = tmuxLive
              /\ registry' = registry
              /\ NewSessionName(u) \in tmuxLive'
              /\ registry'[u] # None
              /\ registry'[u].status = StatusRUNNING]_vars

\* a create failed after its first preamble command had been typed
C17_Witness ==
    \E u \in Uuids :
        /\ creates[u].pc = "500"
        /\ Len(creates[u].steps) = 5
        /\ registry[u] # None
        /\ registry[u].status = StatusRUNNING
        /\ NewSessionName(u) \in tmuxLive

IsPrefix(sq, of) == Len(sq) <= Len(of) /\ sq = SubSeq(of, 1, Len(sq))

\* the steps of a create for a template, as the specification orders them
ExpectedSteps(template) ==
    << "new-session", "pipe-pane", "insert" >> \o template.preCommands \o
    (IF template.autoRun /\ template.command # ""
     THEN << template.command >> ELSE << >>)

\* C18: what a create has done so far is a beginning of: new-session,
\* pipe-pane (once), insert, the preamble commands in list order, the autorun
\* command; a create that replied 201 has done all of it; and a pane that was
\* typed into has exactly one pipe open and a row of its session's name.
C18_CreateStepOrder ==
    /\ \A u \in Uuids :
          /\ IsPrefix(creates[u].steps, ExpectedSteps(creates[u].template))
          /\ creates[u].pc = "201" =>
                creates[u].steps = ExpectedSteps(creates[u].template)
    /\ \A nm \in Range(TmuxNames) :
          paneInput[nm] # << >> =>
              /\ pipes[nm] = 1
              /\ \E o \in StoredIds : registry[o].tmuxSession = nm

\* a create with two preamble commands and an autorun command was served
C18_Witness ==
    \E u \in Uuids :
        /\ creates[u].pc = "201"
        /\ creates[u].steps = << "new-session", "pipe-pane", "insert",
                                 "pre1", "pre2", "run" >>
        /\ paneInput[NewSessionName(u)] = << "pre1", "pre2", "run" >>
        /\ pipes[NewSessionName(u)] = 1

\* C19: no two rows carry the same tmux session name, and no create replies
\* 201 whose name belonged to a live session or to a row when it started.
C19_UniqueSessionNames ==
    /\ \A a, b \in StoredIds :
          a # b => registry[a].tmuxSession # registry[b].tmuxSession
    /\ \A u \in Uuids : creates[u].pc = "201" => ~creates[u].taken

\* a create whose name a row carried got as far as the insert and failed,
\* another whose name a live session carried failed, a third was served
C19_Witness ==
    /\ creates["1-a"].pc = "500"
    /\ creates["1-a"].steps = << "new-session", "pipe-pane" >>
    /\ registry["1-a"] = None
    /\ \E u, v \in {"2-a", "2-b"} :
          /\ creates[u].pc = "201"
          /\ creates[v].pc = "500" /\ creates[v].taken

\* the order of the specification, highest first
PhaseOrder == << "WAITING", "ERROR", "TESTING", "BUILDING", "CODING" >>
RankOf(phase) == CHOOSE n \in 1..Len(PhaseOrder) : PhaseOrder[n] = phase

\* the phases whose patterns match in the last N lines of the text
Candidates(lines, n) ==
    {p \in Range(PhaseOrder) :
        \/ \E i \in 1..Len(lines) : i > Len(lines) - n /\ p \in lines[i]
        \/ p = "WAITING" /\ "PROMPT_END" \in lines[Len(lines)]}

\* C20: what detectPhase returned is IDLE when no pattern set matches in the
\* last 50 lines of the text, and otherwise the matching phase that comes
\* first in WAITING > ERROR > TESTING > BUILDING > CODING; so lines before the
\* last 50 do not count, and a prompt together with an error gives WAITING.
C20_ClassifyByPriorityInWindow ==
    phaseOut # "none" =>
        LET cands == Candidates(phaseText.lines, 50)
        IN /\ cands = {} => phaseOut = "IDLE"
           /\ cands # {} =>
                 /\ phaseOut \in cands
                 /\ \A q \in cands : RankOf(phaseOut) <= RankOf(q)
           /\ ({"WAITING", "ERROR"} \subseteq cands) => phaseOut = "WAITING"

\* a text of more than 50 lines, a prompt and an error in its first line
\* only, tests, a build and an assistant in its last, was classified TESTING
C20_Witness ==
    /\ phaseOut = "TESTING"
    /\ Len(phaseText.lines) > 50
    /\ phaseText.lines[1] = {"WAITING", "ERROR"}
    /\ phaseText.lines[Len(phaseText.lines)] = {"TESTING", "BUILDING", "CODING"}

\* the status messages sent for key k, each with the text of the snapshot
\* sent in the same step (none when the status was sent without a snapshot)
StatusSteps(k) ==
    {[phase |-> log[k][p].phase,
      tick |-> log[k][p].tick,
      text |-> IF /\ p > 1
                  /\ log[k][p - 1].type = "snapshot"
                  /\ log[k][p - 1].call = log[k][p].call
                  /\ log[k][p - 1].seq = log[k][p].seq
                  /\ log[k][p - 1].tick = log[k][p].tick
               THEN log[k][p - 1].text ELSE None] :
       p \in {q \in 1..Len(log[k]) : log[k][q].type = "status"}}

AllStatusSteps == UNION {StatusSteps(k) : k \in SubKeys}

\* classify as the specification words it: IDLE when nothing matches in the
\* last 50 lines, otherwise the matching phase of the highest priority
ClassifyOf(text) ==
    LET cands == Candidates(text.lines, 50)
    IN IF cands = {} THEN "IDLE"
       ELSE CHOOSE p \in cands : \A q \in cands : RankOf(p) <= RankOf(q)

\* C21: the phase of every status message is classify applied to the text
\* captured in the same subscribe step or poll tick, so two steps that
\* captured the same text sent the same phase, whatever snapshots, phases or
\* registry values came before.
C21_PhaseFromCapturedText ==
    /\ \A st \in AllStatusSteps :
          st.text # None /\ st.phase = ClassifyOf(st.text)
    /\ \A st1 \in AllStatusSteps : \A st2 \in AllStatusSteps :
          st1.text = st2.text => st1.phase = st2.phase

\* a key whose tick reported ERROR for the text it captured after an earlier
\* step had reported IDLE and stored it
C21_Witness ==
    \E k \in SubKeys :
        /\ \E st \in StatusSteps(k) : st.tick /\ st.phase = "ERROR"
        /\ \E st \in StatusSteps(k) : ~st.tick /\ st.phase = "IDLE"

\* the steps the server takes for connection c: its messages, the
\* continuations of its subscribes, the ticks of its timers, its close
StepOf(c) ==
    \/ \E k \in KeysOf(c) : RecvSubscribe(k) \/ RecvUnsubscribe(k)
    \/ \E i \in CallIds :
          /\ calls[i].pc # "idle"
          /\ ConnOf(calls[i].key) = c
          /\ \/ SubscribeCaptured(i)
             \/ SubscribeFailed(i)
             \/ TickStart(i)
             \/ \E tk \in BagToSet(ticks) :
                   tk.timer = i /\ (TickCaptured(tk) \/ TickFailed(tk))
    \/ SocketClose(c)

\* what connection c holds: its subscription records and their live timers
HeldBy(c) ==
    [k \in KeysOf(c) |->
       [sub |-> subscriptions[k],
        timers |-> {t \in timers : calls[t].pc # "idle" /\ calls[t].key = k}]]

\* C26: the subscriptions of different connections are independent, also for
\* the same pane: no step taken for one connection (subscribe, unsubscribe,
\* a tick or its failure, close) changes a subscription record, its
\* last-seen content or a timer of another connection.
C26_ConnectionsIndependent ==
    [][\A d \in Conns :
          \/ (HeldBy(d))' = HeldBy(d)
          \/ \A c \in Conns \ {d} : ~StepOf(c)]_vars

\* connection A has closed after subscribing while B still follows the same
\* pane with its timer and the content it saw last
C26_Witness ==
    /\ ~open["A"] /\ open["B"]
    /\ \E i \in CallIds : calls[i].pc = "done" /\ calls[i].key = << "A", "s1", "0.0" >>
    /\ LET kb == << "B", "s1", "0.0" >>
       IN /\ subscriptions[kb] # None
          /\ subscriptions[kb].intervalId \in timers
          /\ subscriptions[kb].lastContent # EmptyString
\* C27: handling a subscribe message or running a poll tick leaves every
\* registry record unchanged.
C27_SubscribeAndTicksLeaveRegistry ==
    [][(\E c \in Conns : StepOf(c)) => registry' = registry]_vars

\* the messages log[k] holds of handleSubscribe invocation i
MessagesOf(i) ==
    SelectSeq(log[calls[i].key], LAMBDA msg : msg.call = i)

\* C29: when the initial capture of a subscribe fails, the client is sent one
\* error message and neither a snapshot nor a status, and the step creates no
\* subscription record and no poll timer.
C29_FailedSubscribeOnlyError ==
    /\ \A i \in CallIds : calls[i].pc = "failed" =>
          /\ Len(MessagesOf(i)) <= 1
          /\ \A p \in 1..Len(MessagesOf(i)) : MessagesOf(i)[p].type = "error"
          /\ open[ConnOf(calls[i].key)] => Len(MessagesOf(i)) = 1
          /\ i \notin timers
          /\ \A k \in SubKeys :
                subscriptions[k] # None => subscriptions[k].intervalId # i

\* a subscribe whose capture failed on an open socket: its one error message
\* is all its key was sent, and the key has neither record nor timer
C29_Witness ==
    \E i \in CallIds :
        /\ calls[i].pc = "failed"
        /\ open[ConnOf(calls[i].key)]
        /\ Len(log[calls[i].key]) = 1
        /\ log[calls[i].key][1].type = "error"
        /\ subscriptions[calls[i].key] = None
        /\ TimersOf(calls[i].key) = {}
RowFields == {"status", "phase", "lastActivityAt"}
FieldsWritten(id) == {f \in RowFields : registry'[id][f] # registry[id][f]}

\* C28: every registry write changes a single field of one record: no step
\* of reconcile or kill changes more than one field of a record, so a status
\* flip leaves the record's phase and last-activity timestamp as they were.
C28_SingleFieldWrites ==
    [][\A id \in RegIds :
          /\ Cardinality(FieldsWritten(id)) <= 1
          /\ "status" \in FieldsWritten(id) => FieldsWritten(id) = {"status"}]_vars
\* C22: every input message makes one send-keys invocation; with mode
\* command its keys are the text followed by Enter, with any other mode they
\* are the text alone, whatever the modes of the messages before it were.
C22_ModeSelectsEnter ==
    /\ sendCount = nextInput - 1
    /\ (lastSend.id # 0 /\ lastSend.msg.mode # "key") =>
          /\ lastSend.args.target[2] = lastSend.msg.paneKey
          /\ lastSend.args.keys =
                IF lastSend.msg.mode = "command"
                THEN << lastSend.msg.data, "Enter" >>
                ELSE << lastSend.msg.data >>

\* a raw message handled after a command message went out without Enter
C22_Witness ==
    /\ inputs[1].command
    /\ lastSend.id = 2
    /\ lastSend.msg.mode = "raw"
    /\ lastSend.args.keys = << "ls" >>

\* C23: a delivery of an input or key message that succeeded sets
\* lastActivityAt of the session's registry record to the current time; one
\* that failed leaves the registry unchanged, sends one error message to the
\* client, and leaves the connection, its subscriptions and their timers as
\* they were.
C23_DeliveryOutcome ==
    [][\A n \in InputIds : DeliveryDone(n) =>
          IF inputs[n].ok
          THEN /\ inputs'[n].errors = 0
               /\ inputs[n].session # None =>
                     registry'[inputs[n].session.id].lastActivityAt = clock
          ELSE /\ registry' = registry
               /\ open[inputs[n].conn] => inputs'[n].errors = 1
               /\ open' = open
               /\ subscriptions' = subscriptions
               /\ timers' = timers]_vars

\* with the pane subscribed and polled, one delivery has failed with its
\* error message and one has succeeded for the session that has a row
C23_Witness ==
    /\ open["A"]
    /\ \E k \in LiveKeys :
          subscriptions[k] # None /\ subscriptions[k].intervalId \in timers
    /\ \E n \in InputIds : inputs[n].pc = "failed" /\ inputs[n].errors = 1
    /\ \E n \in InputIds : inputs[n].pc = "done"
    /\ registry["s1"].lastActivityAt = clock
\* whether the stderr text says that there is no server or no session
SaysNoSessions(stderr) ==
    \E text \in { << "no", " ", "server", " ", "running" >>,
                   << "no", " ", "sessions" >>,
                   << "error", " ", "connecting" >>,
                   << "no", " ", "such", " ", "file", " ", "or", " ", "directory" >> } :
        includes(toLowerCase(stderr), text)

\* C24: list-sessions returns the empty list when tmux exits non-zero with
\* one of the known no-server or no-sessions texts and fails on every other
\* non-zero exit; on success it returns the listed names that begin with the
\* owned prefix, in their order, and no other name.
C24_ListSessionsOutcome ==
    (callIn.op = "listSessions" /\ callOut # Pending) =>
        IF callIn.result.code # 0
        THEN IF SaysNoSessions(callIn.result.stderr)
             THEN callOut = Returned(<< >>)
             ELSE callOut = Thrown
        ELSE callOut = Returned(SelectSeq(callIn.names,
                                          LAMBDA name : name[1] = "ccp_"))

\* tmux could not reach its socket, exited non-zero, and list-sessions
\* returned the empty list
C24_Witness ==
    /\ callIn.op = "listSessions"
    /\ callIn.result.code # 0
    /\ includes(callIn.result.stderr, << "Permission", " ", "denied" >>)
    /\ callOut = Returned(<< >>)

\* C25: parsing a list-panes record round-trips: the pane that listPanes
\* returns for a printed record has the index, id, active flag and current
\* path that were printed, also when the path contains ':'.
C25_ListPanesRoundTrip ==
    (callIn.op = "listPanes" /\ callOut # Pending) =>
        callOut = Returned(callIn.panes)

\* the pane key has the form <windowIndex>.<paneIndex>
IsPaneKey(str) ==
    \E w \in 0..9 : \E p \in 0..9 : str = paneTarget(w, p)

\* C30: the pane key of every subscribe, input and key message the web client
\* sends has the form <windowIndex>.<paneIndex>, so the target the server
\* builds is <tmux session name>:<windowIndex>.<paneIndex>, whether the pane
\* came from the stored active pane, the ?pane= parameter or the first
\* listed pane.
C30_PaneKeyForm ==
    (callIn.op \in {"subscribe", "input", "key"} /\ callOut # Pending) =>
        /\ IsPaneKey(callOut.paneKey)
        /\ callOut.target = << callIn.session.tmuxSession, ":" >> \o callOut.paneKey
\* a body that names a workspace or a template the tables do not hold
UnknownReference(body) ==
    \/ body.workspaceId # "" /\ body.workspaceId \notin {"w1"}
    \/ body.templateId # "" /\ body.templateId \notin {"tPlain", "tFull"}

C36_FailedCreateLeavesNoSession ==
    [][\A u \in Uuids :
          (creates[u].pc = "piping" /\ creates'[u].pc = "500")
          => NewSessionName(u) \notin tmuxLive']_vars

\* C32: every tmux invocation is bounded in time: also when its process never
\* exits, the call is settled at some point (as a failure).
C32_InvocationsSettle ==
    (callIn.op = "execTmux") ~> (callOut # Pending)

SnapshotsAndStatuses(k) ==
    SelectSeq(log[k], LAMBDA msg : msg.type \in {"snapshot", "status"})

\* C34: from the moment an unsubscribe for a key has been handled on a
\* connection until a subscribe for that key is received, no snapshot and
\* no status is sent for the key and no poll timer is created for it, also
\* when a subscribe was awaiting its first capture at the unsubscribe.
C34_QuietAfterUnsubscribe ==
    [][\A k \in SubKeys :
          (k \in unsubscribed.keys /\ k \in unsubscribed'.keys)
          => /\ SnapshotsAndStatuses(k)' = SnapshotsAndStatuses(k)
             /\ TimersOf(k)' \subseteq TimersOf(k)]_vars

\* C35: a row marked EXITED stays EXITED until GET /sessions finds its
\* session live again: no subscribe and no poll tick running at the same
\* time writes an older status back.
C35_ExitedUntilReconciled ==
    [][\A id \in SessionIds :
          (registry[id].status = StatusEXITED /\ registry'[id].status # StatusEXITED)
          => (listPc = "listing" /\ listPc' = "done")]_vars

\* the pane a session page is about, and the subscription of the page on the
\* connection that replaced the lost one
ViewedPane(v) ==
    << v.id, IF v.paneParam = NoParam THEN stringify(SessionData(v.id).activePane)
             ELSE stringify(v.paneParam) >>
NewKey(v) == << "B", v.id, stringify(detailPaneKey(v)) >>
Reconnected == sockets[1] = "CLOSED" /\ sockets[2] = "OPEN"
Resynchronized(v) ==
    /\ delivered[NewKey(v)] # None
    /\ outputBuffers[detailPaneKey(v)] # NoContent
    /\ rawOutput(v) = delivered[NewKey(v)]
    /\ rawOutput(v) = PaneScript[panes[ViewedPane(v)]]

\* C31: when the connection was lost and a new one is open while the page of
\* a session is on screen, the server eventually has sent a snapshot of the
\* viewed pane on the new connection and the page shows it, equal to what
\* the pane holds.
C31_ResynchronizedAfterReconnect ==
    \A v \in WatchViews : (Reconnected /\ view = v) ~> Resynchronized(v)

\* the same for the page opened without ?pane=
C31_DefaultViewResynchronized ==
    \A v \in {w \in WatchViews : w.paneParam = NoParam} :
        (Reconnected /\ view = v) ~> Resynchronized(v)

\* C37: after an unexpected close the client retries until a connection opens
\* or 10 attempts in a row have failed: a scheduled reconnect ends only by
\* running connect() or by an explicit disconnect(), and every successful
\* open sets the attempt counter to 0.
C37_ReconnectRunsUnlessDisconnected ==
    [][/\ (reconnectTimeout /\ ~reconnectTimeout')
          => \/ wsInstance' # 0
             \/ reconnectAttempts' = MAX_RECONNECT_ATTEMPTS /\ wsInstance' = 0
       /\ \A s \in SockIds :
            (sockets[s] = "CONNECTING" /\ sockets'[s] = "OPEN")
            => reconnectAttempts' = 0]_vars

ConnectingOrOpen == {s \in SockIds : sockets[s] \in {"CONNECTING", "OPEN"}}

\* C38: whatever the order of connect(), disconnect() and the close events of
\* sockets, the client has at most one WebSocket connecting or open, and
\* wsInstance is that socket whenever there is one.
C38_OneSocket ==
    /\ Cardinality(ConnectingOrOpen) <= 1
    /\ \A s \in ConnectingOrOpen : wsInstance = s

\* C39: after every update of the content given to XTermView, also one that
\* does not extend the previous content, the terminal shows the latest
\* content.
C39_TerminalShowsContent ==
    terminal.shown = xtermContent

\* what the client shows for a session: the output of its page for every
\* pane, and the preview of its card
ShownFor(id) ==
    [output |-> [p \in ViewParams |->
                   rawOutput([page |-> "detail", id |-> id, paneParam |-> p])],
     preview |-> previewText(id)]

\* C40: a snapshot received for one session changes only what is shown for
\* that session: the output and the card preview of every other session stay
\* as they were, also when both sessions use the same pane key.
C40_SnapshotOfOwnSession ==
    [][\A msg \in SnapshotMessages :
          HandleMessage(msg)
          => \A id \in ViewIds \ {msg.sessionId} : ShownFor(id)' = ShownFor(id)]_vars
====
